---------------------------- MODULE Spec2Model ----------------------------
(***************************************************************************)
(* A model of go-zerokit-rln's codec, field conversion and epoch            *)
(* arithmetic (package rln).                                                *)
(*                                                                          *)
(* Representation.  A byte is a number in 0..255 and a []byte or [N]byte    *)
(* is a sequence of bytes.  A uint64 is a sequence of four 16-bit words,    *)
(* least significant first, so that 64-bit wrap-around is computed exactly  *)
(* with numbers that stay below 2^31.  A *big.Int is the sequence           *)
(* value.Bytes() returns: the big-endian bytes of the magnitude, without    *)
(* leading zero bytes.                                                      *)
(***************************************************************************)
EXTENDS Integers, Sequences, FiniteSets, TLC

---------------------------------------------------------------------------
(* Bounds of the model.                                                    *)

\* Longest path (elements or indexes) of the exhaustively enumerated proofs.
MaxDepth == 2
\* Number of distinct 32-byte values the inputs are drawn from.
NumNodes == 2
\* Longest raw (received) buffer handed to MerkleProof.deserialize.
MaxRawLen == 50
\* Number of deserialize calls made on one buffer.
MaxCalls == 2
\* Longest data given to the witness and rate limit proof encoders (beside
\* the 32 bytes of the test).
MaxDataLen == 2
\* The numbers 0..MaxNatural are converted to 32 bytes.
MaxNatural == 300
\* The counters 0..MaxCounter are made into epochs.
MaxCounter == 40
\* The counters 0..MaxDiffCounter are among those Diff is called with.
MaxDiffCounter == 6
\* Depth of the registry's Merkle tree (the package's default is 20).
RegistryDepth == 2
\* Number of registry operations in one behaviour.
MaxOps == 3
\* Longest batch of commitments given to InsertMembers, beside the batch
\* that fills the tree.
MaxBatch == 2
\* Number of goroutines that call Keccak256.
NumCallers == 2
\* Number of Keccak256 calls made in all.
MaxKeccakCalls == 3

---------------------------------------------------------------------------
(* Bytes and slices.                                                       *)

Zeros(n) == [i \in 1..n |-> 0]

\* A revert that swaps nothing.
revert_noop(b) == b

\* The bytes of b in the opposite order: what revert leaves in the memory
\* of the slice it is given, and what it returns.
revert(b) == [i \in 1..Len(b) |-> b[Len(b) - i + 1]]

\* A revert of one byte less: revert(b[lo-1:hi-1]).
RevertRange_short(b, lo, hi) ==
    SubSeq(b, 1, lo - 1) \o revert(SubSeq(b, lo, hi - 1)) \o SubSeq(b, hi, Len(b))

\* The buffer b after revert(b[lo-1:hi]) (1-based lo..hi): revert swaps in
\* place, and a Go sub-slice shares the memory of the slice it is cut from.
RevertRange(b, lo, hi) ==
    SubSeq(b, 1, lo - 1) \o revert(SubSeq(b, lo, hi)) \o SubSeq(b, hi + 1, Len(b))

---------------------------------------------------------------------------
(* uint64: four 16-bit words, least significant first.                     *)

Word == 256 * 256

NatToU64(n) == <<n % Word, n \div Word, 0, 0>>

\* Defined for the values below 2^31 only.
U64ToNat(w) == w[1] + Word * w[2]

IsSmallU64(w) == w[3] = 0 /\ w[4] = 0 /\ w[2] < Word \div 2

Add64(a, b) ==
    LET s1 == a[1] + b[1]
        s2 == a[2] + b[2] + (s1 \div Word)
        s3 == a[3] + b[3] + (s2 \div Word)
        s4 == a[4] + b[4] + (s3 \div Word)
    IN  <<s1 % Word, s2 % Word, s3 % Word, s4 % Word>>

\* a * k modulo 2^64, for 0 <= k < 2^15.
MulSmall64(a, k) ==
    LET p1 == a[1] * k
        p2 == a[2] * k + (p1 \div Word)
        p3 == a[3] * k + (p2 \div Word)
        p4 == a[4] * k + (p3 \div Word)
    IN  <<p1 % Word, p2 % Word, p3 % Word, p4 % Word>>

Neg64(a) == Add64([j \in 1..4 |-> (Word - 1) - a[j]], NatToU64(1))

\* a > b as unsigned 64-bit numbers.
Gt64(a, b) ==
    \E j \in 1..4 : a[j] > b[j] /\ \A k \in (j + 1)..4 : a[k] = b[k]

\* binary.LittleEndian.PutUint64: byte i (0-based) is (v >> 8i) & 0xff.
PutUint64(v) ==
    [i \in 1..8 |-> IF i % 2 = 1 THEN v[(i + 1) \div 2] % 256
                                 ELSE v[i \div 2] \div 256]

\* binary.LittleEndian.Uint64 of the first 8 bytes of b.
Uint64(b) == [j \in 1..4 |-> b[2 * j - 1] + 256 * b[2 * j]]

\* new(big.Int).SetBytes(be).Uint64() for 8 big-endian bytes be.
SetBytesUint64(be) == [j \in 1..4 |-> be[10 - 2 * j] + 256 * be[9 - 2 * j]]

---------------------------------------------------------------------------
(* Length prefixes and the Merkle proof codec.                             *)

\* A length prefix written big-endian.
appendLength_bigEndian(input) ==
    revert(PutUint64(NatToU64(Len(input)))) \o input

\* [len<8>|input<var>], len little-endian.
appendLength(input) == PutUint64(NatToU64(Len(input))) \o input

\* [count<8>|input<var>], count the number of 32-byte values in input.
appendLength32(input) == PutUint64(NatToU64(Len(input) \div 32)) \o input

Flatten(b) ==
    [i \in 1..(32 * Len(b)) |-> b[((i - 1) \div 32) + 1][((i - 1) % 32) + 1]]

EmptyProof == [PathElements |-> <<>>, PathIndexes |-> <<>>]

\* A serialization that writes as many index bytes as there are elements:
\* it cuts the indexes, or fills them up with zeros.
MerkleProof_serialize_evened(r) ==
    appendLength32(Flatten(r.PathElements))
        \o appendLength([i \in 1..Len(r.PathElements) |->
                            IF i <= Len(r.PathIndexes) THEN r.PathIndexes[i]
                            ELSE 0])

MerkleProof_serialize(r) ==
    appendLength32(Flatten(r.PathElements)) \o appendLength(r.PathIndexes)

\* The largest len for which make([]T, len) does not panic, T of elemSize
\* bytes (a power of two): the runtime refuses more than 2^48 bytes.
MaxSliceLen(elemSize) ==
    IF elemSize = 1 THEN <<0, 0, 0, 1>> ELSE <<0, 0, Word \div elemSize, 0>>

makeslicePanics(len, elemSize) == Gt64(len, MaxSliceLen(elemSize))

\* An expected length that leaves out the index bytes.
expectedLen_noIndexes(numElements) ==
    Add64(Add64(NatToU64(8), MulSmall64(numElements, 32)), NatToU64(8))

\* expectedLen := 8 + int(32*numElements.Uint64()) + 8 + int(numElements.Uint64()):
\* the product wraps as a uint64 and the sum as a 64-bit int, which is the
\* arithmetic modulo 2^64 on the same bits.
expectedLen(numElements) ==
    Add64(Add64(Add64(NatToU64(8), MulSmall64(numElements, 32)),
                NatToU64(8)), numElements)

\* The outcome of r.deserialize(b): err is "nil", "error" or "panic", r the
\* receiver and b the caller's buffer as the call leaves them.  A slice or
\* index expression that reaches past the end of b panics (b is taken to
\* have no spare capacity), and so does a make the runtime refuses.
MerkleProof_deserialize(r, b) ==
    IF Len(b) < 8 THEN [err |-> "error", r |-> r, b |-> b]
    ELSE
    LET b1 == RevertRange(b, 1, 8)
        numElements == SetBytesUint64(SubSeq(b1, 1, 8))
    IN  IF NatToU64(Len(b)) # expectedLen(numElements)
        THEN [err |-> "error", r |-> r, b |-> b1]
        ELSE IF makeslicePanics(numElements, 32) \/ ~IsSmallU64(numElements)
        THEN [err |-> "panic", r |-> r, b |-> b1]
        ELSE
        LET n == U64ToNat(numElements)
            off == 8 + 32 * n
        IN  IF off + 8 > Len(b)
            THEN [err |-> "panic", r |-> r, b |-> b1]
            ELSE
            LET elems == [i \in 1..n |->
                             SubSeq(b1, 8 + 32 * (i - 1) + 1, 8 + 32 * i)]
                r1 == [r EXCEPT !.PathElements = elems]
                b2 == RevertRange(b1, off + 1, off + 8)
                numIndexes == SetBytesUint64(SubSeq(b2, off + 1, off + 8))
            IN  IF numIndexes # numElements
                THEN [err |-> "error", r |-> r1, b |-> b2]
                ELSE IF off + 8 + n > Len(b)
                THEN [err |-> "panic", r |-> r1, b |-> b2]
                ELSE
                LET r2 == [r1 EXCEPT
                             !.PathIndexes = [i \in 1..n |-> b2[off + 8 + i]]]
                IN  IF off + 8 + n # Len(b)
                    THEN [err |-> "error", r |-> r2, b |-> b2]
                    ELSE [err |-> "nil", r |-> r2, b |-> b2]

---------------------------------------------------------------------------
(* Inputs.                                                                 *)

\* The k-th 32-byte value the inputs are built from; Node(0) is all zero.
Node(k) == [i \in 1..32 |-> (k * 85 + i * k) % 256]

Nodes == {Node(k) : k \in 0..(NumNodes - 1)}

IndexBytes == {0, 1, 255}

SeqsUpTo(S, n) == UNION {[1..m -> S] : m \in 0..n}

\* A proof as TestMerkleProofSerDe builds it, of the given size.
TestProof(size) ==
    [PathElements |-> [i \in 1..size |-> Node(i % NumNodes)],
     PathIndexes |-> [i \in 1..size |-> (i - 1) % 2]]

TestSizes == {0, 1, 8, 16, 20, 32}

\* Every proof with at most MaxDepth elements and at most MaxDepth indexes
\* (the two lengths independent), and the proofs of the test's sizes.
Proofs ==
    {[PathElements |-> e, PathIndexes |-> x] :
        e \in SeqsUpTo(Nodes, MaxDepth), x \in SeqsUpTo(IndexBytes, MaxDepth)}
    \cup {TestProof(size) : size \in TestSizes}

\* The multiplicative inverse of 33 modulo 2^64 (0x0f83e0f83e0f83e1).
Inv33 == <<33761, 15887, 57592, 3971>>

\* The one element count n with 8 + 32*n + 8 + n = len modulo 2^64.
WrapCount(len) ==
    IF len >= 16 THEN MulSmall64(Inv33, len - 16)
                 ELSE Neg64(MulSmall64(Inv33, 16 - len))

MaxUint64 == <<Word - 1, Word - 1, Word - 1, Word - 1>>

HeaderCounts(len) ==
    {NatToU64(0), NatToU64(1), NatToU64(2), MaxUint64, WrapCount(len)}

Fillers == {0, 1}

\* A received buffer of len bytes: the element count, then len - 8 bytes
\* of filler (all of it cut to len bytes).
RawBuffer(count, filler, len) ==
    SubSeq(PutUint64(count) \o [i \in 1..len |-> filler], 1, len)

RawBuffers ==
    UNION {{RawBuffer(c, f, len) : c \in HeaderCounts(len), f \in Fillers} :
              len \in 0..MaxRawLen}

---------------------------------------------------------------------------
(* Witness and rate limit proof encodings.                                 *)

\* A witness encoding that length-prefixes Data.
RLNWitnessInput_serialize_prefixed(r) ==
    r.IdentityCredential.IDSecretHash
        \o MerkleProof_serialize(r.MerkleProof)
        \o appendLength(r.Data)
        \o r.Epoch
        \o r.RlnIdentifier

RLNWitnessInput_serialize(r) ==
    r.IdentityCredential.IDSecretHash
        \o MerkleProof_serialize(r.MerkleProof)
        \o r.Data
        \o r.Epoch
        \o r.RlnIdentifier

\* A proof encoding with the two shares in the other order.
RateLimitProof_serialize_swapped(r) ==
    r.Proof \o r.MerkleRoot \o r.Epoch \o r.ShareY \o r.ShareX
        \o r.Nullifier \o r.RLNIdentifier

RateLimitProof_serialize(r) ==
    r.Proof \o r.MerkleRoot \o r.Epoch \o r.ShareX \o r.ShareY
        \o r.Nullifier \o r.RLNIdentifier

RateLimitProof_serializeWithData(r, data) ==
    RateLimitProof_serialize(r) \o appendLength(data)

\* The zero value of RateLimitProof.
NoRateLimitProof ==
    [Proof |-> Zeros(128), MerkleRoot |-> Zeros(32), Epoch |-> Zeros(32),
     ShareX |-> Zeros(32), ShareY |-> Zeros(32), Nullifier |-> Zeros(32),
     RLNIdentifier |-> Zeros(32)]

---------------------------------------------------------------------------
(* big.Int and the 32-byte little-endian field representation.             *)

\* value.Bytes() of big.NewInt(n): the big-endian bytes of n, none for 0.
RECURSIVE NatBytes(_)
NatBytes(n) == IF n = 0 THEN <<>> ELSE Append(NatBytes(n \div 256), n % 256)

\* new(big.Int).SetBytes(buf): buf read as a big-endian number, which drops
\* its leading zero bytes.
RECURSIVE SetBytes(_)
SetBytes(b) ==
    IF b = <<>> THEN <<>>
    ELSE IF Head(b) = 0 THEN SetBytes(Tail(b)) ELSE b

\* What a call gives: a value, or a run-time panic.
Returns(v) == [panic |-> FALSE, val |-> v]

Panics == [panic |-> TRUE, val |-> <<>>]

\* copy(result[32-len(b):], b) into a zeroed [32]byte; the slice expression
\* panics when b is longer than 32 bytes.
Bytes32(b) ==
    IF Len(b) > 32 THEN Panics ELSE Returns(Zeros(32 - Len(b)) \o b)

\* A conversion that pads on the left: Bytes32 applied to the reverted
\* bytes, without tmp.
BigIntToBytes32_leftPad(value) == Bytes32(revert(value))

\* tmp[0:len(b)] is out of range, a panic, when value.Bytes() is longer
\* than the 32 bytes of tmp.
BigIntToBytes32(value) ==
    LET b == revert(value)
    IN  IF Len(b) > 32 THEN Panics
        ELSE LET tmp == b \o Zeros(32 - Len(b))
             IN  Bytes32(tmp)

\* A decoding that reads the 32 bytes as they are, big-endian.
Bytes32ToBigInt_noRevert(value) == SetBytes(value)

Bytes32ToBigInt(value) ==
    LET b == revert(value)
    IN  SetBytes(b)

---------------------------------------------------------------------------
(* The pooled Keccak state.  A KeccakState is what it has absorbed since   *)
(* its last Reset and whether it has been read from (a sponge that is      *)
(* squeezing).                                                             *)

\* NewKeccakState: sha3.NewLegacyKeccak256().
NewKeccakState == [absorbed |-> <<>>, squeezing |-> FALSE]

\* A Reset that leaves the state as it is.
KeccakState_Reset_noop(h) == h

KeccakState_Reset(h) == [absorbed |-> <<>>, squeezing |-> FALSE]

\* Write gives [panic, val]: val is the state after it.  The sponge
\* refuses a Write after a Read with a panic.
KeccakState_Write(h, b) ==
    IF h.squeezing THEN Panics
    ELSE Returns([h EXCEPT !.absorbed = @ \o b])

\* The 32 bytes a state that has absorbed the bytes m gives first.
KeccakDigest(m) ==
    SubSeq([i \in 1..32 |->
               IF m = <<>> THEN (197 + 31 * i) % 256
               ELSE (m[((i - 1) % Len(m)) + 1] * 5 + m[Len(m)] * 3
                        + Len(m) * 29 + i * i) % 256], 1, 32)

\* Read gives [h, b]: the state after it and the bytes read into b.  Read
\* changes the state: what a second Read gives is not the digest.
KeccakState_Read(h) ==
    [h |-> [h EXCEPT !.squeezing = TRUE],
     b |-> IF h.squeezing THEN KeccakDigest(KeccakDigest(h.absorbed))
           ELSE KeccakDigest(h.absorbed)]

\* The writes of Keccak256 from the k-th slice of data on; [panic, val].
RECURSIVE WriteAll(_, _, _)
WriteAll(h, dataIn, k) ==
    IF k > Len(dataIn) THEN Returns(h)
    ELSE LET res == KeccakState_Write(h, dataIn[k])
         IN  IF res.panic THEN res ELSE WriteAll(res.val, dataIn, k + 1)

---------------------------------------------------------------------------
(* Credentials from hexadecimal strings.  A string is a sequence of        *)
(* characters.                                                             *)

\* The value of a hexadecimal digit; 16 for any other character.
fromHexChar(c) ==
    CASE c = "0" -> 0 [] c = "1" -> 1 [] c = "2" -> 2 [] c = "3" -> 3
      [] c = "4" -> 4 [] c = "5" -> 5 [] c = "6" -> 6 [] c = "7" -> 7
      [] c = "8" -> 8 [] c = "9" -> 9
      [] c \in {"a", "A"} -> 10 [] c \in {"b", "B"} -> 11
      [] c \in {"c", "C"} -> 12 [] c \in {"d", "D"} -> 13
      [] c \in {"e", "E"} -> 14 [] c \in {"f", "F"} -> 15
      [] OTHER -> 16

\* hex.DecodeString gives [b, err]: an error for a character that is no
\* hexadecimal digit and for an odd length.
hex_DecodeString(s) ==
    IF \E i \in 1..Len(s) : fromHexChar(s[i]) > 15
    THEN [b |-> <<>>, err |-> "encoding/hex: invalid byte"]
    ELSE IF Len(s) % 2 = 1
    THEN [b |-> <<>>, err |-> "encoding/hex: odd length hex string"]
    ELSE [b |-> [i \in 1..(Len(s) \div 2) |->
                    16 * fromHexChar(s[2 * i - 1]) + fromHexChar(s[2 * i])],
          err |-> "nil"]

\* ToBytes32LE gives [panic, val, err].
ToBytes32LE(hexStr) ==
    LET dec == hex_DecodeString(hexStr)
    IN  IF dec.err # "nil"
        THEN [panic |-> FALSE, val |-> Zeros(32), err |-> dec.err]
        ELSE LET b == revert(dec.b)
                 res == Bytes32(b)
             IN  [panic |-> res.panic, val |-> res.val, err |-> "nil"]

\* The conversions of gk[0], gk[1], gk[2], gk[3], in this order, from the
\* i-th on: gk[i] is out of range, a panic, in a shorter tuple.
RECURSIVE ConvertKeys(_, _, _)
ConvertKeys(gk, i, done) ==
    IF i > 4 THEN [panic |-> FALSE, val |-> done, err |-> "nil"]
    ELSE IF i > Len(gk) THEN [panic |-> TRUE, val |-> <<>>, err |-> "nil"]
    ELSE LET res == ToBytes32LE(gk[i])
         IN  IF res.panic THEN [panic |-> TRUE, val |-> <<>>, err |-> "nil"]
             ELSE IF res.err # "nil"
             THEN [panic |-> FALSE, val |-> <<>>, err |-> res.err]
             ELSE ConvertKeys(gk, i + 1, Append(done, res.val))

\* The loop of ToIdentityCredentials from the k-th tuple on.
RECURSIVE ConvertTuples(_, _, _)
ConvertTuples(groupKeys, k, groupIdCredentials) ==
    IF k > Len(groupKeys)
    THEN [panic |-> FALSE, val |-> groupIdCredentials, err |-> "nil"]
    ELSE LET res == ConvertKeys(groupKeys[k], 1, <<>>)
         IN  IF res.panic \/ res.err # "nil" THEN res
             ELSE ConvertTuples(groupKeys, k + 1,
                      Append(groupIdCredentials,
                             [IDTrapdoor |-> res.val[1],
                              IDNullifier |-> res.val[2],
                              IDSecretHash |-> res.val[3],
                              IDCommitment |-> res.val[4]]))

\* ToIdentityCredentials gives [panic, val, err]; val is the list returned,
\* empty for nil.
ToIdentityCredentials(groupKeys) == ConvertTuples(groupKeys, 1, <<>>)

---------------------------------------------------------------------------
(* Epochs.                                                                 *)

ToEpoch(t) == PutUint64(t) \o Zeros(24)

\* A counter read big-endian.
Epoch_Uint64_bigEndian(e) == SetBytesUint64(SubSeq(e, 1, 8))

Epoch_Uint64(e) == Uint64(e)

\* a - b modulo 2^64.
Sub64(a, b) == Add64(a, Neg64(b))

\* An int64 is kept as the four words of its two's complement bits: the
\* conversion int64(x) of a uint64 keeps the 64 bits of x, and the bit of
\* weight 2^63 becomes the sign.
Negative64(d) == d[4] >= Word \div 2

Positive64(d) == ~Negative64(d) /\ d # NatToU64(0)

\* A difference taken the other way round.
Diff_swapped(e1, e2) ==
    LET epoch1 == Epoch_Uint64(e1)
        epoch2 == Epoch_Uint64(e2)
    IN  Sub64(epoch2, epoch1)

\* int64(epoch1) - int64(epoch2): Go's signed subtraction wraps, so the
\* result has the bits of epoch1 - epoch2 modulo 2^64.
Diff(e1, e2) ==
    LET epoch1 == Epoch_Uint64(e1)
        epoch2 == Epoch_Uint64(e2)
    IN  Sub64(epoch1, epoch2)

---------------------------------------------------------------------------
(* The backend's Merkle tree.  A tree is [leaves, leavesSet]: the leaves   *)
(* at the indexes 0..Capacity-1 (leaves[i + 1] is the leaf at index i) and *)
(* the next free position, which is the number of leaves set.              *)

Capacity == 2 ^ RegistryDepth

\* The canonical empty leaf.
EmptyLeaf == Zeros(32)

\* The backend's hash of two nodes: a 32-byte digest in which every byte
\* depends on bytes of both nodes and on its position.
\* (SubSeq makes the digest a sequence of computed bytes.)
HashPair(l, r) ==
    SubSeq([i \in 1..32 |->
               (l[i] * 7 + r[i] * 13 + l[(i % 32) + 1] * 3
                   + r[((i + 4) % 32) + 1] * 5 + i + 1) % 256], 1, 32)

\* The nodes one level above the given nodes.
LevelAbove(nodes) ==
    SubSeq([i \in 1..(Len(nodes) \div 2) |->
               HashPair(nodes[2 * i - 1], nodes[2 * i])],
           1, Len(nodes) \div 2)

RECURSIVE RootOf(_)
RootOf(nodes) == IF Len(nodes) = 1 THEN nodes[1] ELSE RootOf(LevelAbove(nodes))

NewTree == [leaves |-> [i \in 1..Capacity |-> EmptyLeaf], leavesSet |-> 0]

Max(a, b) == IF a >= b THEN a ELSE b

\* What a backend call gives: whether it succeeded, the tree as the call
\* leaves it, and the bytes it wrote to the output buffer.
BackendOk(tree, out) == [ok |-> TRUE, tree |-> tree, out |-> out]

BackendFailed(tree) == [ok |-> FALSE, tree |-> tree, out |-> <<>>]

set_leaf(tree, index, leaf) ==
    IF index >= Capacity THEN BackendFailed(tree)
    ELSE BackendOk([leaves |-> [tree.leaves EXCEPT ![index + 1] = leaf],
                    leavesSet |-> Max(tree.leavesSet, index + 1)], <<>>)

\* Appends at the next free position; fails when the tree is full.
set_next_leaf(tree, leaf) == set_leaf(tree, tree.leavesSet, leaf)

\* The 32-byte values of a buffer [count<8>|value<32>|...].
ParseLeaves(input) ==
    LET count == U64ToNat(Uint64(input))
    IN  SubSeq([i \in 1..count |->
                   SubSeq(input, 8 + 32 * (i - 1) + 1, 8 + 32 * i)], 1, count)

\* The leaves set one after the other from index on, up to the first
\* that fails.
RECURSIVE SetEach(_, _, _)
SetEach(tree, index, leaves) ==
    IF leaves = <<>> THEN BackendOk(tree, <<>>)
    ELSE LET res == set_leaf(tree, index, Head(leaves))
         IN  IF res.ok THEN SetEach(res.tree, index + 1, Tail(leaves))
             ELSE res

\* Atomic batch: when an insertion fails, the insertions made before it
\* are rolled back.
set_leaves_from(tree, index, input) ==
    LET res == SetEach(tree, index, ParseLeaves(input))
    IN  IF res.ok THEN res ELSE BackendFailed(tree)

\* Replaces the leaf with the empty leaf; the other leaves stay where they
\* are and the next free position is not moved.
delete_leaf(tree, index) ==
    IF index >= Capacity THEN BackendFailed(tree)
    ELSE BackendOk([tree EXCEPT !.leaves[index + 1] = EmptyLeaf], <<>>)

get_root(tree) == BackendOk(tree, RootOf(tree.leaves))

\* The empty leaf for an unpopulated index.
get_leaf(tree, index) ==
    IF index >= Capacity THEN BackendFailed(tree)
    ELSE BackendOk(tree, tree.leaves[index + 1])

\* The nodes of the tree level by level, the leaves first.
RECURSIVE Levels(_)
Levels(nodes) ==
    IF Len(nodes) = 1 THEN <<nodes>>
    ELSE <<nodes>> \o Levels(LevelAbove(nodes))

\* x with its lowest bit flipped.
Sibling(x) == IF x % 2 = 0 THEN x + 1 ELSE x - 1

\* The authentication path of index, from the leaf upward: at each level
\* the sibling of the node on the way to the root, and the direction bit.
PathOf(tree, index) ==
    LET levels == Levels(tree.leaves)
    IN  [PathElements |->
            [k \in 1..RegistryDepth |->
                levels[k][Sibling(index \div (2 ^ (k - 1))) + 1]],
         PathIndexes |->
            [k \in 1..RegistryDepth |-> (index \div (2 ^ (k - 1))) % 2]]

\* The path in the encoding of the Merkle proof codec.
get_proof(tree, index) ==
    IF index >= Capacity THEN BackendFailed(tree)
    ELSE BackendOk(tree, MerkleProof_serialize(PathOf(tree, index)))

---------------------------------------------------------------------------
(* The backend's prover and verifier.  The proof system is modelled by a   *)
(* seal: the 128-byte proof is computed from the public values it is about *)
(* (root, external nullifier, x, y, nullifier), and it verifies exactly    *)
(* when it is the seal of the values it comes with.                        *)

\* The application identifier the backend puts in its proofs.
BackendRlnIdentifier == [i \in 1..32 |-> (3 * i + 1) % 256]

\* The backend's hash of one value (the commitment of a secret, the
\* nullifier of a line coefficient).
HashOne(v) == HashPair(v, Zeros(32))

\* The backend's hash of a signal into the field.
HashSignal(signal) ==
    SubSeq([i \in 1..32 |->
               IF signal = <<>> THEN i
               ELSE (signal[((i - 1) % Len(signal)) + 1] * 3
                        + Len(signal) * 17 + i) % 256], 1, 32)

\* The root recomputed from a leaf and an authentication path:
\* PathIndexes[k] = 0 means the node is a left child.
RECURSIVE RootFromPath(_, _, _)
RootFromPath(node, path, k) ==
    IF k > Len(path.PathElements) THEN node
    ELSE RootFromPath(IF path.PathIndexes[k] = 0
                          THEN HashPair(node, path.PathElements[k])
                          ELSE HashPair(path.PathElements[k], node),
                      path, k + 1)

\* The 128-byte proof of the public values.
Seal(root, externalNullifier, x, y, nullifier) ==
    SubSeq([i \in 1..128 |->
               LET j == ((i - 1) % 32) + 1
               IN  (root[j] * 3 + externalNullifier[j] * 5 + x[j] * 7
                       + y[j] * 11 + nullifier[j] * 13 + i) % 256], 1, 128)

\* input is [ id_key<32> | id_index<8> | epoch<32> | signal_len<8> |
\* signal<var> ]; the output is [ proof<128> | root<32> | epoch<32> |
\* share_x<32> | share_y<32> | nullifier<32> | rln_identifier<32> ].  The
\* root is the one the path of id_index gives for the commitment of
\* id_key.
generate_rln_proof(tree, input) ==
    IF Len(input) < 80 THEN BackendFailed(tree)
    ELSE
    LET idKey == SubSeq(input, 1, 32)
        idIndex == Uint64(SubSeq(input, 33, 40))
        epochIn == SubSeq(input, 41, 72)
        signalLen == Uint64(SubSeq(input, 73, 80))
    IN  IF \/ ~IsSmallU64(idIndex) \/ ~IsSmallU64(signalLen)
           \/ U64ToNat(idIndex) >= Capacity
           \/ U64ToNat(signalLen) # Len(input) - 80
        THEN BackendFailed(tree)
        ELSE
        LET signal == SubSeq(input, 81, Len(input))
            root == RootFromPath(HashOne(idKey),
                                 PathOf(tree, U64ToNat(idIndex)), 1)
            externalNullifier == HashPair(epochIn, BackendRlnIdentifier)
            a1 == HashPair(idKey, externalNullifier)
            x == HashSignal(signal)
            y == SubSeq([i \in 1..32 |-> (idKey[i] + a1[i] * x[i]) % 256],
                        1, 32)
            nullifier == HashOne(a1)
        IN  BackendOk(tree,
                Seal(root, externalNullifier, x, y, nullifier) \o root
                    \o epochIn \o x \o y \o nullifier \o BackendRlnIdentifier)

\* The roots of a buffer of 32-byte values.
ParseRoots(rootBytes) ==
    {SubSeq(rootBytes, 32 * (i - 1) + 1, 32 * i) :
        i \in 1..(Len(rootBytes) \div 32)}

\* proofBytes is [ proof<128> | root<32> | epoch<32> | share_x<32> |
\* share_y<32> | nullifier<32> | rln_identifier<32> | signal_len<8> |
\* signal<var> ].  out is the verdict: the proof is the seal of its
\* values and of the signal, and its root is among the roots given, if
\* any is given.
verify_with_roots(tree, proofBytes, rootBytes) ==
    IF Len(proofBytes) < 328 \/ Len(rootBytes) % 32 # 0
    THEN BackendFailed(tree)
    ELSE
    LET signalLen == Uint64(SubSeq(proofBytes, 321, 328))
    IN  IF ~IsSmallU64(signalLen) \/ U64ToNat(signalLen) # Len(proofBytes) - 328
        THEN BackendFailed(tree)
        ELSE
        LET zkproof == SubSeq(proofBytes, 1, 128)
            root == SubSeq(proofBytes, 129, 160)
            epochIn == SubSeq(proofBytes, 161, 192)
            x == SubSeq(proofBytes, 193, 224)
            y == SubSeq(proofBytes, 225, 256)
            nullifier == SubSeq(proofBytes, 257, 288)
            rlnIdentifier == SubSeq(proofBytes, 289, 320)
            signal == SubSeq(proofBytes, 329, Len(proofBytes))
            valid ==
                /\ x = HashSignal(signal)
                /\ zkproof = Seal(root, HashPair(epochIn, rlnIdentifier), x, y,
                                  nullifier)
            roots == ParseRoots(rootBytes)
        IN  BackendOk(tree, valid /\ (roots = {} \/ root \in roots))

\* The backend's Poseidon hash of a list of 32-byte values: of two values
\* it is the hash the prover makes the external nullifier with.
RECURSIVE PoseidonOf(_)
PoseidonOf(elems) ==
    IF elems = <<>> THEN Zeros(32)
    ELSE IF Len(elems) = 1 THEN HashOne(elems[1])
    ELSE IF Len(elems) = 2 THEN HashPair(elems[1], elems[2])
    ELSE HashPair(PoseidonOf(SubSeq(elems, 1, Len(elems) - 1)),
                  elems[Len(elems)])

\* input is [ inputs_len<8> | input<32> ... ]; out is the 32-byte hash.
poseidon_hash(input) ==
    IF Len(input) < 8 THEN BackendFailed(NewTree)
    ELSE
    LET count == Uint64(SubSeq(input, 1, 8))
    IN  IF ~IsSmallU64(count) \/ 32 * U64ToNat(count) # Len(input) - 8
        THEN BackendFailed(NewTree)
        ELSE BackendOk(NewTree,
                 PoseidonOf([i \in 1..U64ToNat(count) |->
                                SubSeq(input, 32 * i - 23, 32 * i + 8)]))

---------------------------------------------------------------------------
(* The registry facade: the methods of RLN.  Each gives [rln, err, out]:   *)
(* the tree behind r.ptr after the call, the error ("nil" for none) and    *)
(* the value returned.                                                     *)

\* |id_commitment_len<8>|id_commitment<var>|
serializeCommitments(commitments) ==
    PutUint64(NatToU64(Len(commitments))) \o Flatten(commitments)

\* An insertion that writes at the index 0 (a batch of one from 0).
RLN_InsertMember_atZero(rln, idComm) ==
    LET res == set_leaves_from(rln, 0, serializeCommitments(<<idComm>>))
    IN  IF ~res.ok
        THEN [rln |-> res.tree, err |-> "could not insert member", out |-> <<>>]
        ELSE [rln |-> res.tree, err |-> "nil", out |-> <<>>]

\* An insertion that does not look at what set_next_leaf returned.
RLN_InsertMember_unchecked(rln, idComm) ==
    LET res == set_next_leaf(rln, idComm)
    IN  [rln |-> res.tree, err |-> "nil", out |-> <<>>]

RLN_InsertMember(rln, idComm) ==
    LET res == set_next_leaf(rln, idComm)
    IN  IF ~res.ok
        THEN [rln |-> res.tree, err |-> "could not insert member", out |-> <<>>]
        ELSE [rln |-> res.tree, err |-> "nil", out |-> <<>>]

\* A batch made of single insertions, as AddAll makes them: the insertions
\* before the one that fails stay.
RECURSIVE RLN_InsertMembers_oneByOne(_, _, _)
RLN_InsertMembers_oneByOne(rln, index, idComms) ==
    IF idComms = <<>> THEN [rln |-> rln, err |-> "nil", out |-> <<>>]
    ELSE LET res == set_leaf(rln, index, Head(idComms))
         IN  IF ~res.ok
             THEN [rln |-> res.tree, err |-> "could not insert members",
                   out |-> <<>>]
             ELSE RLN_InsertMembers_oneByOne(res.tree, index + 1, Tail(idComms))

RLN_InsertMembers(rln, index, idComms) ==
    LET idCommBytes == serializeCommitments(idComms)
        res == set_leaves_from(rln, index, idCommBytes)
    IN  IF ~res.ok
        THEN [rln |-> res.tree, err |-> "could not insert members", out |-> <<>>]
        ELSE [rln |-> res.tree, err |-> "nil", out |-> <<>>]

\* A deletion of the first leaf, whatever the index.
RLN_DeleteMember_first(rln, index) ==
    LET res == delete_leaf(rln, 0)
    IN  IF ~res.ok
        THEN [rln |-> res.tree, err |-> "could not delete member", out |-> <<>>]
        ELSE [rln |-> res.tree, err |-> "nil", out |-> <<>>]

\* A deletion of the leaf after the one asked for.
RLN_DeleteMember_next(rln, index) ==
    LET res == delete_leaf(rln, index + 1)
    IN  IF ~res.ok
        THEN [rln |-> res.tree, err |-> "could not delete member", out |-> <<>>]
        ELSE [rln |-> res.tree, err |-> "nil", out |-> <<>>]

RLN_DeleteMember(rln, index) ==
    LET res == delete_leaf(rln, index)
    IN  IF ~res.ok
        THEN [rln |-> res.tree, err |-> "could not delete member", out |-> <<>>]
        ELSE [rln |-> res.tree, err |-> "nil", out |-> <<>>]

\* A read of the root "after insertion": an empty leaf is appended first.
RLN_GetMerkleRoot_afterInsertion(rln) ==
    LET ins == set_next_leaf(rln, EmptyLeaf)
        res == get_root(ins.tree)
    IN  IF ~res.ok
        THEN [rln |-> res.tree, err |-> "could not get the root", out |-> Zeros(32)]
        ELSE IF Len(res.out) # 32
        THEN [rln |-> res.tree, err |-> "wrong output size", out |-> Zeros(32)]
        ELSE [rln |-> res.tree, err |-> "nil", out |-> res.out]

RLN_GetMerkleRoot(rln) ==
    LET res == get_root(rln)
    IN  IF ~res.ok
        THEN [rln |-> res.tree, err |-> "could not get the root", out |-> Zeros(32)]
        ELSE IF Len(res.out) # 32
        THEN [rln |-> res.tree, err |-> "wrong output size", out |-> Zeros(32)]
        ELSE [rln |-> res.tree, err |-> "nil", out |-> res.out]

RLN_GetLeaf(rln, index) ==
    LET res == get_leaf(rln, index)
    IN  IF ~res.ok
        THEN [rln |-> res.tree, err |-> "could not get the leaf", out |-> Zeros(32)]
        ELSE [rln |-> res.tree, err |-> "nil", out |-> res.out]

\* The number of leaves set.
RLN_LeavesSet(rln) == rln.leavesSet

\* The backend's bytes are decoded with MerkleProof.deserialize.
RLN_GetMerkleProof(rln, index) ==
    LET res == get_proof(rln, index)
    IN  IF ~res.ok
        THEN [rln |-> res.tree, err |-> "could not get the proof",
              out |-> EmptyProof]
        ELSE LET des == MerkleProof_deserialize(EmptyProof, res.out)
             IN  IF des.err # "nil"
                 THEN [rln |-> res.tree, err |-> des.err, out |-> EmptyProof]
                 ELSE [rln |-> res.tree, err |-> "nil", out |-> des.r]

\* [ id_key<32> | id_index<8> | epoch<32> | signal_len<8> | signal<var> ]
serialize(idKey, memIndex, epochIn, msg) ==
    LET memIndexBytes == PutUint64(NatToU64(memIndex))
        lenPrefMsg == appendLength(msg)
    IN  idKey \o memIndexBytes \o epochIn \o lenPrefMsg

\* A GenerateProof that does not look at what generate_rln_proof returned:
\* after a failed call it returns a proof with nothing in it and no error.
RLN_GenerateProof_unchecked(r, msg, key, index, epochIn) ==
    LET input == serialize(key.IDSecretHash, index, epochIn, msg)
        res == generate_rln_proof(r, input)
    IN  IF ~res.ok \/ Len(res.out) # 320
        THEN [rln |-> res.tree, isNil |-> FALSE, proof |-> NoRateLimitProof,
              err |-> "nil"]
        ELSE [rln |-> res.tree, isNil |-> FALSE,
              proof |->
                 [Proof |-> SubSeq(res.out, 1, 128),
                  MerkleRoot |-> SubSeq(res.out, 129, 160),
                  Epoch |-> SubSeq(res.out, 161, 192),
                  ShareX |-> SubSeq(res.out, 193, 224),
                  ShareY |-> SubSeq(res.out, 225, 256),
                  Nullifier |-> SubSeq(res.out, 257, 288),
                  RLNIdentifier |-> SubSeq(res.out, 289, 320)],
              err |-> "nil"]

\* GenerateProof gives [rln, isNil, proof, err]: isNil tells that the
\* *RateLimitProof returned is nil.
\* The proof is parsed as [ proof<128> | root<32> | epoch<32> | share_x<32>
\* | share_y<32> | nullifier<32> | rln_identifier<32> ].
RLN_GenerateProof(r, msg, key, index, epochIn) ==
    LET input == serialize(key.IDSecretHash, index, epochIn, msg)
        res == generate_rln_proof(r, input)
    IN  IF ~res.ok
        THEN [rln |-> res.tree, isNil |-> TRUE, proof |-> NoRateLimitProof,
              err |-> "could not generate the proof"]
        ELSE
        LET proofBytes == res.out
        IN  IF Len(proofBytes) # 320
            THEN [rln |-> res.tree, isNil |-> TRUE, proof |-> NoRateLimitProof,
                  err |-> "invalid proof generated"]
            ELSE
            LET proofOffset == 128
                rootOffset == proofOffset + 32
                epochOffset == rootOffset + 32
                shareXOffset == epochOffset + 32
                shareYOffset == shareXOffset + 32
                nullifierOffset == shareYOffset + 32
                rlnIdentifierOffset == nullifierOffset + 32
            IN  [rln |-> res.tree, isNil |-> FALSE,
                 proof |->
                    [Proof |-> SubSeq(proofBytes, 1, proofOffset),
                     MerkleRoot |-> SubSeq(proofBytes, proofOffset + 1, rootOffset),
                     Epoch |-> SubSeq(proofBytes, rootOffset + 1, epochOffset),
                     ShareX |-> SubSeq(proofBytes, epochOffset + 1, shareXOffset),
                     ShareY |-> SubSeq(proofBytes, shareXOffset + 1, shareYOffset),
                     Nullifier |->
                        SubSeq(proofBytes, shareYOffset + 1, nullifierOffset),
                     RLNIdentifier |->
                        SubSeq(proofBytes, nullifierOffset + 1,
                               rlnIdentifierOffset)],
                 err |-> "nil"]

\* A serialization of the roots that appends nothing.
serialize32_none(roots) == <<>>

serialize32(roots) == Flatten(roots)

\* A verification that reports a proof the backend refuses as an error.
RLN_Verify_refusedIsError(r, msg, proofValue, roots) ==
    LET proofBytes == RateLimitProof_serializeWithData(proofValue, msg)
        rootBytes == serialize32(roots)
        res == verify_with_roots(r, proofBytes, rootBytes)
    IN  IF ~res.ok \/ ~res.out
        THEN [rln |-> res.tree, res |-> FALSE,
              err |-> "could not verify with roots"]
        ELSE [rln |-> res.tree, res |-> res.out, err |-> "nil"]

\* A verification that does not hand the roots to the backend.
RLN_Verify_noRoots(r, msg, proofValue, roots) ==
    LET proofBytes == RateLimitProof_serializeWithData(proofValue, msg)
        rootBytes == serialize32(<<>>)
        res == verify_with_roots(r, proofBytes, rootBytes)
    IN  IF ~res.ok
        THEN [rln |-> res.tree, res |-> FALSE,
              err |-> "could not verify with roots"]
        ELSE [rln |-> res.tree, res |-> res.out, err |-> "nil"]

RLN_Verify(r, msg, proofValue, roots) ==
    LET proofBytes == RateLimitProof_serializeWithData(proofValue, msg)
        rootBytes == serialize32(roots)
        res == verify_with_roots(r, proofBytes, rootBytes)
    IN  IF ~res.ok
        THEN [rln |-> res.tree, res |-> FALSE,
              err |-> "could not verify with roots"]
        ELSE [rln |-> res.tree, res |-> res.out, err |-> "nil"]

\* AddAll adds the members one after the other and stops at the first
\* error.
RECURSIVE RLN_AddAll(_, _)
RLN_AddAll(r, list) ==
    IF list = <<>> THEN [rln |-> r, err |-> "nil", out |-> <<>>]
    ELSE LET res == RLN_InsertMember(r, Head(list))
         IN  IF res.err # "nil" THEN res
             ELSE RLN_AddAll(res.rln, Tail(list))

serializeSlice(roots) == Flatten(roots)

\* copy(result[:], b) into a zeroed [32]byte.
CopyInto32(b) ==
    [i \in 1..32 |-> IF i <= Len(b) THEN b[i] ELSE 0]

\* Poseidon gives [out, err]; the receiver is not used.
RLN_Poseidon(input) ==
    LET dataIn == serializeSlice(input)
        inputLen == PutUint64(NatToU64(Len(input)))
        lenPrefData == inputLen \o dataIn
        res == poseidon_hash(lenPrefData)
    IN  IF ~res.ok
        THEN [out |-> Zeros(32), err |-> "error in poseidon hash"]
        ELSE [out |-> CopyInto32(res.out), err |-> "nil"]

\* The zero value of ProofMetadata.
NoProofMetadata ==
    [Nullifier |-> Zeros(32), ShareX |-> Zeros(32), ShareY |-> Zeros(32),
     ExternalNullifier |-> Zeros(32)]

\* An ExtractMetadata that hashes (RLNIdentifier, Epoch).
ExtractMetadata_reversed(proofValue) ==
    LET res == RLN_Poseidon(<<proofValue.RLNIdentifier, proofValue.Epoch>>)
    IN  IF res.err # "nil"
        THEN [out |-> NoProofMetadata,
              err |-> "could not construct the external nullifier"]
        ELSE [out |-> [Nullifier |-> proofValue.Nullifier,
                       ShareX |-> proofValue.ShareX,
                       ShareY |-> proofValue.ShareY,
                       ExternalNullifier |-> res.out],
              err |-> "nil"]

\* ExtractMetadata gives [out, err].
ExtractMetadata(proofValue) ==
    LET res == RLN_Poseidon(<<proofValue.Epoch, proofValue.RLNIdentifier>>)
    IN  IF res.err # "nil"
        THEN [out |-> NoProofMetadata,
              err |-> "could not construct the external nullifier"]
        ELSE [out |-> [Nullifier |-> proofValue.Nullifier,
                       ShareX |-> proofValue.ShareX,
                       ShareY |-> proofValue.ShareY,
                       ExternalNullifier |-> res.out],
              err |-> "nil"]

\* bytes.Equal
bytes_Equal(a, b) ==
    Len(a) = Len(b) /\ \A i \in 1..Len(a) : a[i] = b[i]

ProofMetadata_Equals(p, p2) ==
    /\ bytes_Equal(p.Nullifier, p2.Nullifier)
    /\ bytes_Equal(p.ShareX, p2.ShareX)
    /\ bytes_Equal(p.ShareY, p2.ShareY)
    /\ bytes_Equal(p.ExternalNullifier, p2.ExternalNullifier)

---------------------------------------------------------------------------
(* The Merkle proof codec in use.  One behaviour follows one buffer: a     *)
(* proof is serialized and the bytes may be cut or extended by one byte,   *)
(* or bytes are received from elsewhere; then the buffer is deserialized,  *)
(* up to MaxCalls times.                                                   *)

VARIABLES
    proof,      \* the MerkleProof last serialized
    buf,        \* the byte buffer, as its memory now is
    origin,     \* "none", "serialize", "truncated", "padded" or "raw"
    desProof,   \* the receiver of deserialize
    outcomes    \* the results of the deserialize calls made on buf

merkleVars == <<proof, buf, origin, desProof, outcomes>>

VARIABLES
    wireOp,     \* "none", "witness", "proof" or "proofWithData"
    witness,    \* the RLNWitnessInput serialized
    rlpArg,     \* the RateLimitProof as it was when serialize was called
    rlp,        \* the caller's RateLimitProof
    data,       \* the data given to serializeWithData
    wire        \* the bytes returned

wireVars == <<wireOp, witness, rlpArg, rlp, data, wire>>

VARIABLES
    fieldPc,    \* "idle", "encoded" or "decoded"
    bigInt,     \* the *big.Int given to BigIntToBytes32
    natural,    \* the number bigInt was made from with big.NewInt, or -1
    b32Value,   \* what BigIntToBytes32 gave
    newValue    \* the *big.Int Bytes32ToBigInt gave for b32Value

fieldVars == <<fieldPc, bigInt, natural, b32Value, newValue>>

VARIABLES
    epochPc,    \* "idle", "made", "received" or "read"
    counter,    \* the uint64 given to ToEpoch
    epoch,      \* the Epoch
    epochValue  \* what epoch.Uint64() gave

epochVars == <<epochPc, counter, epoch, epochValue>>

VARIABLES
    diffPc,     \* "idle" or "done"
    e1,         \* the first Epoch given to Diff
    e2,         \* the second Epoch given to Diff
    diffValue   \* the int64 Diff(e1, e2) gave

diffVars == <<diffPc, e1, e2, diffValue>>

VARIABLES
    rln,          \* the tree behind the RLN instance's r.ptr
    regOp,        \* the last call made on the instance, with what it gave
    opCount,      \* the number of calls made
    onlyInserts,  \* no InsertMembers and no DeleteMember call was made
    insertCount   \* the number of InsertMember calls that returned no error

registryVars == <<rln, regOp, opCount, onlyInserts, insertCount>>

VARIABLES
    vPc,         \* "new", "populated", "registered", "proved" or "verified"
    group,       \* the tree behind the RLN instance of the group
    rootOld,     \* the root read before the member was inserted
    member,      \* the member's credential and the index it was given
    genArgs,     \* the arguments of GenerateProof
    proofRes,    \* what GenerateProof gave
    sent,        \* the proof handed to Verify, and how it was altered
    verifyArgs,  \* the data and the roots given to Verify
    verifyRes    \* what Verify gave

proverVars ==
    <<vPc, group, rootOld, member, genArgs, proofRes, sent, verifyArgs,
      verifyRes>>

VARIABLES
    mdPc,      \* "idle", "extracted" or "compared"
    mdProof,   \* the proof given to ExtractMetadata
    mdRes,     \* what ExtractMetadata gave
    mdOther,   \* the ProofMetadata given to Equals
    mdEquals   \* what Equals gave

metaVars == <<mdPc, mdProof, mdRes, mdOther, mdEquals>>

VARIABLES
    credPc,     \* "idle" or "done"
    groupKeys,  \* the key tuples given to ToIdentityCredentials
    credRes     \* what ToIdentityCredentials gave, or that it panicked

credVars == <<credPc, groupKeys, credRes>>

VARIABLES
    keccak256Pool,  \* the KeccakStates in the pool (their identities)
    hashStates,     \* the KeccakStates made so far, by identity
    callPc,         \* of each caller: "idle", "got", "reset", "read"
    callData,       \* of each caller: the data of its call
    callWritten,    \* of each caller: the slices of data written
    callHeld,       \* of each caller: the KeccakState h it holds, 0: none
    callOut,        \* of each caller: what its last call gave
    callCount       \* the number of calls begun

poolVars ==
    <<keccak256Pool, hashStates, callPc, callData, callWritten, callHeld,
      callOut, callCount>>

VARIABLES
    eqPc,        \* "fresh", "batched" or "both"
    eqComms,     \* the commitments cs
    batchRln,    \* the tree of the registry given InsertMembers(0, cs)
    batchErr,    \* the error of InsertMembers(0, cs)
    singleRln,   \* the tree of the registry given AddAll(cs)
    singleErr    \* the error of AddAll(cs)

equivVars == <<eqPc, eqComms, batchRln, batchErr, singleRln, singleErr>>

\* The parts modelled last.
laterVars == <<metaVars, credVars, poolVars, equivVars>>

\* The parts before them.
formerVars ==
    <<merkleVars, wireVars, fieldVars, epochVars, diffVars, registryVars,
      proverVars>>

\* The parts a step of metadata leaves alone.
besidesMeta == <<formerVars, credVars, poolVars, equivVars>>

\* The parts a step of credential conversion leaves alone.
besidesCred == <<formerVars, metaVars, poolVars, equivVars>>

\* The parts a step of Keccak256 leaves alone.
besidesPool == <<formerVars, metaVars, credVars, equivVars>>

\* The parts a step of the two registries leaves alone.
besidesEquiv == <<formerVars, metaVars, credVars, poolVars>>

\* The state of the parts of the package modelled further down.
restVars == <<diffVars, registryVars, proverVars, laterVars>>

vars == <<merkleVars, wireVars, fieldVars, epochVars, restVars>>

MerkleInit ==
    /\ proof = EmptyProof
    /\ buf = <<>>
    /\ origin = "none"
    /\ desProof = EmptyProof
    /\ outcomes = <<>>

Serialize ==
    /\ origin = "none"
    /\ \E p \in Proofs :
          /\ proof' = p
          /\ buf' = MerkleProof_serialize(p)
    /\ origin' = "serialize"
    /\ UNCHANGED <<desProof, outcomes, wireVars, fieldVars, epochVars,
                 restVars>>

Truncate ==
    /\ origin = "serialize"
    /\ outcomes = <<>>
    /\ buf' = SubSeq(buf, 1, Len(buf) - 1)
    /\ origin' = "truncated"
    /\ UNCHANGED <<proof, desProof, outcomes, wireVars, fieldVars, epochVars,
                 restVars>>

Pad ==
    /\ origin = "serialize"
    /\ outcomes = <<>>
    /\ \E x \in IndexBytes : buf' = Append(buf, x)
    /\ origin' = "padded"
    /\ UNCHANGED <<proof, desProof, outcomes, wireVars, fieldVars, epochVars,
                 restVars>>

Receive ==
    /\ origin = "none"
    /\ \E b \in RawBuffers : buf' = b
    /\ origin' = "raw"
    /\ UNCHANGED <<proof, desProof, outcomes, wireVars, fieldVars, epochVars,
                 restVars>>

Panicked == \E i \in 1..Len(outcomes) : outcomes[i].err = "panic"

Deserialize ==
    /\ origin # "none"
    /\ Len(outcomes) < MaxCalls
    /\ ~Panicked
    /\ LET res == MerkleProof_deserialize(desProof, buf)
       IN  /\ desProof' = res.r
           /\ buf' = res.b
           /\ outcomes' = Append(outcomes, [err |-> res.err, r |-> res.r])
    /\ UNCHANGED <<proof, origin, wireVars, fieldVars, epochVars, restVars>>

MerkleNext == Serialize \/ Truncate \/ Pad \/ Receive \/ Deserialize

---------------------------------------------------------------------------
(* The witness and rate limit proof encoders in use: one call per          *)
(* behaviour.                                                              *)

\* A 128-byte zkSNARK blob.
Snark(k) == [i \in 1..128 |-> (k * 41 + i * (k + 1)) % 256]

RateLimitProofs ==
    {[Proof |-> Snark(k), MerkleRoot |-> root, Epoch |-> e, ShareX |-> x,
      ShareY |-> y, Nullifier |-> nul, RLNIdentifier |-> id] :
        k \in 0..(NumNodes - 1), root \in Nodes, e \in Nodes, x \in Nodes,
        y \in Nodes, nul \in Nodes, id \in Nodes}

\* The message of TestRLNWitnessInputSerDe: 32 zero bytes.
TestData == Zeros(32)

DataBytes == {7, 200}

Datas == SeqsUpTo(DataBytes, MaxDataLen) \cup {TestData}

Witnesses ==
    {[IdentityCredential |-> [IDSecretHash |-> secret],
      MerkleProof |-> TestProof(size),
      Data |-> d, Epoch |-> e, RlnIdentifier |-> id] :
        secret \in Nodes, size \in TestSizes \cup 0..MaxDepth,
        d \in Datas, e \in Nodes, id \in Nodes}

NoWitness ==
    [IdentityCredential |-> [IDSecretHash |-> Zeros(32)],
     MerkleProof |-> EmptyProof,
     Data |-> <<>>, Epoch |-> Zeros(32), RlnIdentifier |-> Zeros(32)]

WireInit ==
    /\ wireOp = "none"
    /\ witness = NoWitness
    /\ rlpArg = NoRateLimitProof
    /\ rlp = NoRateLimitProof
    /\ data = <<>>
    /\ wire = <<>>

SerializeWitness ==
    /\ wireOp = "none"
    /\ \E w \in Witnesses :
          /\ witness' = w
          /\ wire' = RLNWitnessInput_serialize(w)
    /\ wireOp' = "witness"
    /\ UNCHANGED <<rlpArg, rlp, data, merkleVars, fieldVars, epochVars,
                 restVars>>

\* serialize has a value receiver: it works on a copy of the caller's
\* RateLimitProof, and its appends write past the 128 bytes of the copy's
\* Proof array into newly allocated memory.
SerializeProof ==
    /\ wireOp = "none"
    /\ \E p \in RateLimitProofs :
          /\ rlpArg' = p
          /\ rlp' = p
          /\ wire' = RateLimitProof_serialize(p)
    /\ wireOp' = "proof"
    /\ UNCHANGED <<witness, data, merkleVars, fieldVars, epochVars, restVars>>

SerializeProofWithData ==
    /\ wireOp = "none"
    /\ \E p \in RateLimitProofs, d \in Datas :
          /\ rlpArg' = p
          /\ rlp' = p
          /\ data' = d
          /\ wire' = RateLimitProof_serializeWithData(p, d)
    /\ wireOp' = "proofWithData"
    /\ UNCHANGED <<witness, merkleVars, fieldVars, epochVars, restVars>>

WireNext == SerializeWitness \/ SerializeProof \/ SerializeProofWithData

---------------------------------------------------------------------------
(* The field conversions in use: a *big.Int is converted to 32 bytes and   *)
(* the 32 bytes back.                                                      *)

\* 2^248 - 1: 31 bytes 0xFF.
TestBigInt == [i \in 1..31 |-> 255]

\* Big-endian byte strings without a leading zero, of 1 to 33 bytes: all
\* 0xFF, a power of 256, and bytes that differ from place to place.
BigInts ==
    UNION {{[i \in 1..len |-> 255],
            [i \in 1..len |-> IF i = 1 THEN 1 ELSE 0],
            [i \in 1..len |-> (i * 7) % 256]} : len \in 1..33}

\* Numbers around the powers of 256 below 2^31.
BigNaturals ==
    {65535, 65536, 65537, 16777215, 16777216, 16777217, 305419896,
     2147483647}

FieldInit ==
    /\ fieldPc = "idle"
    /\ bigInt = <<>>
    /\ natural = -1
    /\ b32Value = Returns(Zeros(32))
    /\ newValue = <<>>

EncodeNatural ==
    /\ fieldPc = "idle"
    /\ \E n \in 0..MaxNatural \cup BigNaturals :
          /\ natural' = n
          /\ bigInt' = NatBytes(n)
          /\ b32Value' = BigIntToBytes32(NatBytes(n))
    /\ fieldPc' = "encoded"
    /\ UNCHANGED <<newValue, merkleVars, wireVars, epochVars, restVars>>

EncodeBigInt ==
    /\ fieldPc = "idle"
    /\ \E v \in BigInts :
          /\ bigInt' = v
          /\ b32Value' = BigIntToBytes32(v)
    /\ fieldPc' = "encoded"
    /\ UNCHANGED <<natural, newValue, merkleVars, wireVars, epochVars,
                 restVars>>

Decode ==
    /\ fieldPc = "encoded"
    /\ ~b32Value.panic
    /\ newValue' = Bytes32ToBigInt(b32Value.val)
    /\ fieldPc' = "decoded"
    /\ UNCHANGED <<bigInt, natural, b32Value, merkleVars, wireVars, epochVars,
                 restVars>>

FieldNext == EncodeNatural \/ EncodeBigInt \/ Decode

---------------------------------------------------------------------------
(* Epochs in use: an epoch is made from a counter, or received with other  *)
(* bytes after the counter, and its counter is read.                       *)

CounterWords == {0, 1, 255, 256, Word - 1}

\* uint64 counters: every combination of the words above, the first
\* MaxCounter numbers, and the numbers around 2^63.
Counters ==
    {<<a, b, c, d>> : a \in CounterWords, b \in CounterWords,
                      c \in CounterWords, d \in CounterWords}
    \cup {NatToU64(n) : n \in 0..MaxCounter}
    \cup {<<Word - 1, Word - 1, Word - 1, (Word \div 2) - 1>>,
          <<0, 0, 0, Word \div 2>>, <<Word - 2, Word - 1, Word - 1, Word - 1>>}

\* Bytes 8..31 of a received epoch.
EpochTails == {[i \in 1..24 |-> 255], [i \in 1..24 |-> i]}

EpochInit ==
    /\ epochPc = "idle"
    /\ counter = NatToU64(0)
    /\ epoch = Zeros(32)
    /\ epochValue = NatToU64(0)

MakeEpoch ==
    /\ epochPc = "idle"
    /\ \E c \in Counters :
          /\ counter' = c
          /\ epoch' = ToEpoch(c)
    /\ epochPc' = "made"
    /\ UNCHANGED <<epochValue, merkleVars, wireVars, fieldVars, restVars>>

\* An epoch that agrees with ToEpoch(counter) on its first 8 bytes only.
ReceiveEpoch ==
    /\ epochPc = "made"
    /\ \E tail \in EpochTails : epoch' = SubSeq(epoch, 1, 8) \o tail
    /\ epochPc' = "received"
    /\ UNCHANGED <<counter, epochValue, merkleVars, wireVars, fieldVars,
                 restVars>>

ReadEpoch ==
    /\ epochPc \in {"made", "received"}
    /\ epochValue' = Epoch_Uint64(epoch)
    /\ epochPc' = IF epochPc = "made" THEN "read" ELSE "readReceived"
    /\ UNCHANGED <<counter, epoch, merkleVars, wireVars, fieldVars, restVars>>

EpochNext == MakeEpoch \/ ReceiveEpoch \/ ReadEpoch

---------------------------------------------------------------------------
(* Epoch differences in use: one call of Diff per behaviour, on two epochs *)
(* as they are made locally or received.                                   *)

\* Counters where a carry or the sign bit is at stake: 2^16, 2^32, 2^48,
\* 2^63 and 2^64 - 1.
DiffBoundaries ==
    {<<0, 1, 0, 0>>, <<0, 0, 1, 0>>, <<0, 0, 0, 1>>,
     <<0, 0, 0, Word \div 2>>, MaxUint64}

\* The first counters, the boundaries, and the counter before and after
\* each boundary.
DiffCounters ==
    {NatToU64(n) : n \in 0..MaxDiffCounter}
    \cup DiffBoundaries
    \cup {Sub64(c, NatToU64(1)) : c \in DiffBoundaries}
    \cup {Add64(c, NatToU64(1)) : c \in DiffBoundaries}

\* Bytes 8..31 of the first epoch: zero as ToEpoch leaves them, or not.
DiffTails == {Zeros(24)} \cup EpochTails

DiffInit ==
    /\ diffPc = "idle"
    /\ e1 = Zeros(32)
    /\ e2 = Zeros(32)
    /\ diffValue = NatToU64(0)

DiffEpochs ==
    /\ diffPc = "idle"
    /\ \E c1 \in DiffCounters, c2 \in DiffCounters, tail \in DiffTails :
          /\ e1' = PutUint64(c1) \o tail
          /\ e2' = ToEpoch(c2)
          /\ diffValue' = Diff(PutUint64(c1) \o tail, ToEpoch(c2))
    /\ diffPc' = "done"
    /\ UNCHANGED <<merkleVars, wireVars, fieldVars, epochVars, registryVars,
                   proverVars, laterVars>>

DiffNext == DiffEpochs

---------------------------------------------------------------------------
(* The registry in use: up to MaxOps calls on one RLN instance, made one   *)
(* after the other (the instance has a single writer).                     *)

\* A leaf as TestGetMerkleProof writes it: [32]byte{b}.
TestLeaf(b) == <<b>> \o Zeros(31)

\* The commitments inserted: the empty leaf and two members.
Commitments == {TestLeaf(0), TestLeaf(1), TestLeaf(5)}

\* A batch of n commitments.
Batch(n) == [i \in 1..n |-> IF i % 2 = 1 THEN TestLeaf(1) ELSE TestLeaf(5)]

\* The batches of at most MaxBatch commitments and the batch that fills
\* an empty tree.
Batches == {Batch(n) : n \in 0..MaxBatch} \cup {Batch(Capacity)}

\* The indexes read and deleted: the first, the last, and the first
\* index beyond the tree.
ProbeIndexes == {0, 1, 2, Capacity - 1, Capacity}

\* Where a batch starts: at the first leaves, at the last leaf, beyond it.
StartIndexes == {0, 1, Capacity - 1, Capacity}

\* The record of a call: its name and arguments, the error and the value
\* returned, and a root read earlier that the caller compares with:
\*  - for InsertMember, the root read before the call;
\*  - for a DeleteMember that directly follows a successful InsertMember
\*    and deletes the leaf it inserted, the root read before that
\*    InsertMember (idComms is then the commitment it inserted);
\*  - for a GetMerkleRoot that directly follows a GetMerkleRoot, the root
\*    that call returned;
\*  - none (<<>>) otherwise.
Called(name, index, idComms, rootBefore, res) ==
    [name |-> name, index |-> index, idComms |-> idComms,
     rootBefore |-> rootBefore, err |-> res.err, out |-> res.out]

RegistryInit ==
    /\ rln = NewTree
    /\ regOp = [name |-> "NewRLN", index |-> 0, idComms |-> <<>>,
                rootBefore |-> <<>>, err |-> "nil",
                out |-> <<>>]
    /\ opCount = 0
    /\ onlyInserts = TRUE
    /\ insertCount = 0

\* index records the position the new leaf takes.
InsertMember ==
    /\ opCount < MaxOps
    /\ \E idComm \in Commitments :
          LET res == RLN_InsertMember(rln, idComm)
          IN  /\ rln' = res.rln
              /\ regOp' = Called("InsertMember", rln.leavesSet, <<idComm>>,
                                 RLN_GetMerkleRoot(rln).out, res)
              /\ insertCount' = IF res.err = "nil" THEN insertCount + 1
                                                   ELSE insertCount
    /\ opCount' = opCount + 1
    /\ UNCHANGED <<onlyInserts, merkleVars, wireVars, fieldVars, epochVars,
                   diffVars, proverVars, laterVars>>

InsertMembers ==
    /\ opCount < MaxOps
    /\ \E index \in StartIndexes, idComms \in Batches :
          LET res == RLN_InsertMembers(rln, index, idComms)
          IN  /\ rln' = res.rln
              /\ regOp' = Called("InsertMembers", index, idComms, <<>>, res)
    /\ opCount' = opCount + 1
    /\ onlyInserts' = FALSE
    /\ UNCHANGED <<insertCount, merkleVars, wireVars, fieldVars, epochVars,
                   diffVars, proverVars, laterVars>>

DeleteMember ==
    /\ opCount < MaxOps
    /\ \E index \in ProbeIndexes :
          LET res == RLN_DeleteMember(rln, index)
          IN  /\ rln' = res.rln
              /\ regOp' = IF /\ regOp.name = "InsertMember"
                             /\ regOp.err = "nil"
                             /\ regOp.index = index
                          THEN Called("DeleteMember", index, regOp.idComms,
                                      regOp.rootBefore, res)
                          ELSE Called("DeleteMember", index, <<>>, <<>>, res)
    /\ opCount' = opCount + 1
    /\ onlyInserts' = FALSE
    /\ UNCHANGED <<insertCount, merkleVars, wireVars, fieldVars, epochVars,
                   diffVars, proverVars, laterVars>>

GetMerkleRoot ==
    /\ opCount < MaxOps
    /\ LET res == RLN_GetMerkleRoot(rln)
       IN  /\ rln' = res.rln
           /\ regOp' = Called("GetMerkleRoot", 0, <<>>,
                              IF regOp.name = "GetMerkleRoot" THEN regOp.out
                                                              ELSE <<>>,
                              res)
    /\ opCount' = opCount + 1
    /\ UNCHANGED <<onlyInserts, insertCount, merkleVars, wireVars, fieldVars,
                   epochVars, diffVars, proverVars, laterVars>>

GetLeaf ==
    /\ opCount < MaxOps
    /\ \E index \in ProbeIndexes :
          LET res == RLN_GetLeaf(rln, index)
          IN  /\ rln' = res.rln
              /\ regOp' = Called("GetLeaf", index, <<>>, <<>>, res)
    /\ opCount' = opCount + 1
    /\ UNCHANGED <<onlyInserts, insertCount, merkleVars, wireVars, fieldVars,
                   epochVars, diffVars, proverVars, laterVars>>

GetMerkleProof ==
    /\ opCount < MaxOps
    /\ \E index \in ProbeIndexes :
          LET res == RLN_GetMerkleProof(rln, index)
          IN  /\ rln' = res.rln
              /\ regOp' = Called("GetMerkleProof", index, <<>>, <<>>, res)
    /\ opCount' = opCount + 1
    /\ UNCHANGED <<onlyInserts, insertCount, merkleVars, wireVars, fieldVars,
                   epochVars, diffVars, proverVars, laterVars>>

RegistryNext ==
    \/ InsertMember
    \/ InsertMembers
    \/ DeleteMember
    \/ GetMerkleRoot
    \/ GetLeaf
    \/ GetMerkleProof

---------------------------------------------------------------------------
(* Proofs in use, as in TestValidProof and TestInvalidProof: a group is    *)
(* populated, the root is read and a member is inserted, a proof is        *)
(* generated for the member, and the proof, or the proof with one field    *)
(* replaced on its way, is verified.                                       *)

\* A credential as the backend's key generation makes it: the commitment
\* is the hash of the secret.
Credential(k) ==
    [IDTrapdoor |-> Node(k + 2), IDNullifier |-> Node(k + 4),
     IDSecretHash |-> Node(k), IDCommitment |-> HashOne(Node(k))]

Credentials == {Credential(1), Credential(2)}

\* The members inserted before the member: none, one, two.
OtherMembers ==
    {<<>>, <<TestLeaf(1)>>, <<TestLeaf(5), TestLeaf(1)>>}

\* "Hello" and another message.
Msgs == {<<72, 101, 108, 108, 111>>, <<72, 105>>}

ProofEpochs == {Zeros(32), ToEpoch(NatToU64(1))}

NoCredential ==
    [IDTrapdoor |-> Zeros(32), IDNullifier |-> Zeros(32),
     IDSecretHash |-> Zeros(32), IDCommitment |-> Zeros(32)]

ProverInit ==
    /\ vPc = "new"
    /\ group = NewTree
    /\ rootOld = Zeros(32)
    /\ member = [key |-> NoCredential, index |-> 0]
    /\ genArgs = [msg |-> <<>>, index |-> 0, epoch |-> Zeros(32)]
    /\ proofRes = [isNil |-> TRUE, proof |-> NoRateLimitProof, err |-> "nil"]
    /\ sent = [proof |-> NoRateLimitProof, altered |-> "none"]
    /\ verifyArgs = [data |-> <<>>, roots |-> <<>>]
    /\ verifyRes = [res |-> FALSE, err |-> "nil"]

Populate ==
    /\ vPc = "new"
    /\ \E list \in OtherMembers : group' = RLN_AddAll(group, list).rln
    /\ vPc' = "populated"
    /\ UNCHANGED <<rootOld, member, genArgs, proofRes, sent, verifyArgs,
                   verifyRes, merkleVars, wireVars, fieldVars, epochVars,
                   diffVars, registryVars,
                   laterVars>>

\* root_old = GetMerkleRoot(); InsertMember(c).
Register ==
    /\ vPc = "populated"
    /\ rootOld' = RLN_GetMerkleRoot(group).out
    /\ \E key \in Credentials :
          /\ member' = [key |-> key, index |-> RLN_LeavesSet(group)]
          /\ group' = RLN_InsertMember(group, key.IDCommitment).rln
    /\ vPc' = "registered"
    /\ UNCHANGED <<genArgs, proofRes, sent, verifyArgs, verifyRes, merkleVars,
                   wireVars, fieldVars, epochVars, diffVars, registryVars,
                   laterVars>>

\* The member's own index, the index before it or after it, or an index
\* beyond the tree.
GenerateProof ==
    /\ vPc = "registered"
    /\ \E msg \in Msgs, epochIn \in ProofEpochs,
          index \in {member.index, Sibling(member.index), Capacity} :
          LET res == RLN_GenerateProof(group, msg, member.key, index, epochIn)
          IN  /\ genArgs' = [msg |-> msg, index |-> index, epoch |-> epochIn]
              /\ group' = res.rln
              /\ proofRes' = [isNil |-> res.isNil, proof |-> res.proof,
                              err |-> res.err]
              /\ sent' = [proof |-> res.proof, altered |-> "none"]
    /\ vPc' = "proved"
    /\ UNCHANGED <<rootOld, member, verifyArgs, verifyRes, merkleVars, wireVars,
                   fieldVars, epochVars, diffVars, registryVars,
                   laterVars>>

\* The proof reaches the verifier with its root replaced by the old root,
\* or with another share.
Alter ==
    /\ vPc = "proved"
    /\ ~proofRes.isNil
    /\ sent.altered = "none"
    /\ \/ sent' = [proof |-> [sent.proof EXCEPT !.MerkleRoot = rootOld],
                   altered |-> "MerkleRoot"]
       \/ sent' = [proof |-> [sent.proof EXCEPT !.ShareY = Node(1)],
                   altered |-> "ShareY"]
    /\ UNCHANGED <<vPc, group, rootOld, member, genArgs, proofRes, verifyArgs,
                   verifyRes, merkleVars, wireVars, fieldVars, epochVars,
                   diffVars, registryVars,
                   laterVars>>

\* The lists of accepted roots: none, the current root, the old root, both.
RootLists ==
    LET current == RLN_GetMerkleRoot(group).out
    IN  {<<>>, <<current>>, <<rootOld>>, <<rootOld, current>>}

Verify ==
    /\ vPc = "proved"
    /\ ~proofRes.isNil
    /\ \E msg \in Msgs, roots \in RootLists :
          LET res == RLN_Verify(group, msg, sent.proof, roots)
          IN  /\ verifyArgs' = [data |-> msg, roots |-> roots]
              /\ group' = res.rln
              /\ verifyRes' = [res |-> res.res, err |-> res.err]
    /\ vPc' = "verified"
    /\ UNCHANGED <<rootOld, member, genArgs, proofRes, sent, merkleVars,
                   wireVars, fieldVars, epochVars, diffVars, registryVars,
                   laterVars>>

ProverNext == Populate \/ Register \/ GenerateProof \/ Alter \/ Verify

---------------------------------------------------------------------------
(* Proof metadata in use: the metadata of a proof is extracted and         *)
(* compared with the metadata of another proof.                            *)

\* Proofs that differ in the fields the metadata is made of.
MetaProofs ==
    {[Proof |-> Snark(0), MerkleRoot |-> Node(0), Epoch |-> e, ShareX |-> x,
      ShareY |-> y, Nullifier |-> nul, RLNIdentifier |-> id] :
        e \in Nodes, x \in Nodes, y \in Nodes, nul \in Nodes, id \in Nodes}

MetaInit ==
    /\ mdPc = "idle"
    /\ mdProof = NoRateLimitProof
    /\ mdRes = [out |-> NoProofMetadata, err |-> "nil"]
    /\ mdOther = NoProofMetadata
    /\ mdEquals = FALSE

ExtractMetadataOf ==
    /\ mdPc = "idle"
    /\ \E p \in MetaProofs :
          /\ mdProof' = p
          /\ mdRes' = ExtractMetadata(p)
    /\ mdPc' = "extracted"
    /\ UNCHANGED <<mdOther, mdEquals, besidesMeta>>

\* The metadata extracted is compared with the metadata of a proof.
Equals ==
    /\ mdPc = "extracted"
    /\ mdRes.err = "nil"
    /\ \E q \in MetaProofs :
          /\ mdOther' = ExtractMetadata(q).out
          /\ mdEquals' = ProofMetadata_Equals(mdRes.out, ExtractMetadata(q).out)
    /\ mdPc' = "compared"
    /\ UNCHANGED <<mdProof, mdRes, besidesMeta>>

MetaNext == ExtractMetadataOf \/ Equals

---------------------------------------------------------------------------
(* Credentials read from key tuples, as TestCheckCorrectness reads the     *)
(* static group: one call of ToIdentityCredentials per behaviour.          *)

\* The hexadecimal string of n bytes 01, 02, ...
HexOf(n) ==
    [i \in 1..(2 * n) |->
        IF i % 2 = 1 THEN "0"
        ELSE <<"1", "2", "3", "4", "5", "6", "7", "8", "9", "a", "b", "c",
               "d", "e", "F">>[(((i \div 2) - 1) % 15) + 1]]

\* Key strings: of 32 bytes, as in the static group; of one byte; of 33
\* bytes; with a character that is no digit; of odd length; empty.
KeyStrings ==
    {HexOf(32), HexOf(1), HexOf(33), <<"z", "z">>, <<"a", "b", "c">>, <<>>}

\* A tuple of the static group.
GoodTuple == <<HexOf(32), HexOf(1), HexOf(32), HexOf(1)>>

\* Tuples of four strings, and shorter and longer ones.
KeyTuples ==
    {<<a, b, c, d>> : a \in KeyStrings, b \in {HexOf(32), HexOf(33)},
                      c \in {HexOf(1), <<"z", "z">>}, d \in KeyStrings}
    \cup {SubSeq(GoodTuple, 1, n) : n \in 0..3}
    \cup {<<<<"z", "z">>>>, <<HexOf(1), <<"a", "b", "c">>>>,
          GoodTuple \o <<HexOf(33)>>}

\* Lists of no tuple, one tuple, and two tuples.
GroupKeyLists ==
    {<<>>} \cup {<<gk>> : gk \in KeyTuples}
    \cup {<<GoodTuple, gk>> : gk \in KeyTuples}

CredInit ==
    /\ credPc = "idle"
    /\ groupKeys = <<>>
    /\ credRes = [panic |-> FALSE, val |-> <<>>, err |-> "nil"]

ToCredentials ==
    /\ credPc = "idle"
    /\ \E list \in GroupKeyLists :
          /\ groupKeys' = list
          /\ credRes' = ToIdentityCredentials(list)
    /\ credPc' = "done"
    /\ UNCHANGED besidesCred

CredNext == ToCredentials

---------------------------------------------------------------------------
(* Keccak256 called from several goroutines: each call is the steps Get,   *)
(* Reset, Write for each slice of data, Read, and the deferred Put.        *)

Callers == 1..NumCallers

\* The data of a call: two slices, one slice.
KeccakDatas == {<<<<7>>, <<200, 7>>>>, <<<<200>>>>}

NoOutput == [panic |-> FALSE, val |-> <<>>]

PoolInit ==
    /\ keccak256Pool = {}
    /\ hashStates = <<>>
    /\ callPc = [c \in Callers |-> "idle"]
    /\ callData = [c \in Callers |-> <<>>]
    /\ callWritten = [c \in Callers |-> 0]
    /\ callHeld = [c \in Callers |-> 0]
    /\ callOut = [c \in Callers |-> NoOutput]
    /\ callCount = 0

\* b := make([]byte, 32); h := keccak256Pool.Get(): a state of the pool,
\* taken out of it.
GetPooled(c) ==
    /\ callPc[c] = "idle"
    /\ callCount < MaxKeccakCalls
    /\ \E dataIn \in KeccakDatas, h \in keccak256Pool :
          /\ callData' = [callData EXCEPT ![c] = dataIn]
          /\ callHeld' = [callHeld EXCEPT ![c] = h]
          /\ keccak256Pool' = keccak256Pool \ {h}
    /\ callPc' = [callPc EXCEPT ![c] = "got"]
    /\ callWritten' = [callWritten EXCEPT ![c] = 0]
    /\ callOut' = [callOut EXCEPT ![c] = NoOutput]
    /\ callCount' = callCount + 1
    /\ UNCHANGED <<hashStates, besidesPool>>

\* h := keccak256Pool.Get(): the pool gives a state made by New, as it
\* does when it has none, and may when the states put back are not at hand
\* (they are kept per processor, and dropped by the garbage collector).
GetNew(c) ==
    /\ callPc[c] = "idle"
    /\ callCount < MaxKeccakCalls
    /\ \E dataIn \in KeccakDatas :
          callData' = [callData EXCEPT ![c] = dataIn]
    /\ hashStates' = Append(hashStates, NewKeccakState)
    /\ callHeld' = [callHeld EXCEPT ![c] = Len(hashStates) + 1]
    /\ callPc' = [callPc EXCEPT ![c] = "got"]
    /\ callWritten' = [callWritten EXCEPT ![c] = 0]
    /\ callOut' = [callOut EXCEPT ![c] = NoOutput]
    /\ callCount' = callCount + 1
    /\ UNCHANGED <<keccak256Pool, besidesPool>>

\* h.Reset()
Reset(c) ==
    /\ callPc[c] = "got"
    /\ hashStates' = [hashStates EXCEPT
                         ![callHeld[c]] = KeccakState_Reset(@)]
    /\ callPc' = [callPc EXCEPT ![c] = "reset"]
    /\ UNCHANGED <<keccak256Pool, callData, callWritten, callHeld, callOut,
                   callCount, besidesPool>>

\* h.Write(b) for the next slice of data; a panic ends the call.
Write(c) ==
    /\ callPc[c] = "reset"
    /\ callWritten[c] < Len(callData[c])
    /\ LET res == KeccakState_Write(hashStates[callHeld[c]],
                                    callData[c][callWritten[c] + 1])
       IN  IF res.panic
           THEN /\ callOut' = [callOut EXCEPT ![c] = Panics]
                /\ callPc' = [callPc EXCEPT ![c] = "read"]
                /\ UNCHANGED <<hashStates, callWritten>>
           ELSE /\ hashStates' = [hashStates EXCEPT ![callHeld[c]] = res.val]
                /\ callWritten' = [callWritten EXCEPT ![c] = @ + 1]
                /\ UNCHANGED <<callOut, callPc>>
    /\ UNCHANGED <<keccak256Pool, callData, callHeld, callCount, besidesPool>>

\* h.Read(b)
Read(c) ==
    /\ callPc[c] = "reset"
    /\ callWritten[c] = Len(callData[c])
    /\ LET res == KeccakState_Read(hashStates[callHeld[c]])
       IN  /\ hashStates' = [hashStates EXCEPT ![callHeld[c]] = res.h]
           /\ callOut' = [callOut EXCEPT ![c] = Returns(res.b)]
    /\ callPc' = [callPc EXCEPT ![c] = "read"]
    /\ UNCHANGED <<keccak256Pool, callData, callWritten, callHeld, callCount,
                   besidesPool>>

\* return b, and the deferred keccak256Pool.Put(h).
Put(c) ==
    /\ callPc[c] = "read"
    /\ keccak256Pool' = keccak256Pool \cup {callHeld[c]}
    /\ callHeld' = [callHeld EXCEPT ![c] = 0]
    /\ callPc' = [callPc EXCEPT ![c] = "idle"]
    /\ callWritten' = [callWritten EXCEPT ![c] = 0]
    /\ UNCHANGED <<hashStates, callData, callOut, callCount, besidesPool>>

PoolNext ==
    \E c \in Callers :
        \/ GetPooled(c)
        \/ GetNew(c)
        \/ Reset(c)
        \/ Write(c)
        \/ Read(c)
        \/ Put(c)

---------------------------------------------------------------------------
(* Two fresh registries of the same depth, as TestInsertMembers and        *)
(* AddAll fill them: one is given the commitments in one batch from index  *)
(* 0, the other the same commitments one after the other.                  *)

\* The lists of member commitments that fit the tree and the lists with
\* one more, and lists with an empty leaf in them.
CommitmentLists ==
    SeqsUpTo({TestLeaf(1), TestLeaf(5)}, Capacity + 1)
    \cup {<<TestLeaf(0)>>, <<TestLeaf(1), TestLeaf(0)>>,
          <<TestLeaf(0), TestLeaf(5), TestLeaf(0)>>}

EquivInit ==
    /\ eqPc = "fresh"
    /\ eqComms = <<>>
    /\ batchRln = NewTree
    /\ batchErr = "nil"
    /\ singleRln = NewTree
    /\ singleErr = "nil"

InsertBatch ==
    /\ eqPc = "fresh"
    /\ \E cs \in CommitmentLists :
          LET res == RLN_InsertMembers(batchRln, 0, cs)
          IN  /\ eqComms' = cs
              /\ batchRln' = res.rln
              /\ batchErr' = res.err
    /\ eqPc' = "batched"
    /\ UNCHANGED <<singleRln, singleErr, besidesEquiv>>

AddAll ==
    /\ eqPc = "batched"
    /\ LET res == RLN_AddAll(singleRln, eqComms)
       IN  /\ singleRln' = res.rln
           /\ singleErr' = res.err
    /\ eqPc' = "both"
    /\ UNCHANGED <<eqComms, batchRln, batchErr, besidesEquiv>>

EquivNext == InsertBatch \/ AddAll

---------------------------------------------------------------------------
(* Specifications, one for each part of the package.                       *)

Init == MerkleInit /\ WireInit /\ FieldInit /\ EpochInit /\ DiffInit
        /\ RegistryInit /\ ProverInit /\ MetaInit /\ CredInit
        /\ PoolInit /\ EquivInit

SpecMerkle == Init /\ [][MerkleNext]_vars

SpecWire == Init /\ [][WireNext]_vars

SpecField == Init /\ [][FieldNext]_vars

SpecEpoch == Init /\ [][EpochNext]_vars

SpecDiff == Init /\ [][DiffNext]_vars

SpecRegistry == Init /\ [][RegistryNext]_vars

SpecProver == Init /\ [][ProverNext]_vars

SpecMeta == Init /\ [][MetaNext]_vars

SpecCred == Init /\ [][CredNext]_vars

SpecPool == Init /\ [][PoolNext]_vars

SpecEquiv == Init /\ [][EquivNext]_vars

---------------------------------------------------------------------------
(* Claims about the Merkle proof codec (checked under SpecMerkle).         *)

WellFormed(p) == Len(p.PathElements) = Len(p.PathIndexes)

Deserialized == Len(outcomes) >= 1

\* C1: for every proof with as many path elements as path indexes (up to
\* 32), deserializing its serialization returns no error and gives back
\* the same path elements and the same path indexes, in the same order.
C1_RoundTrip ==
    (origin = "serialize" /\ Deserialized /\ WellFormed(proof)
        /\ Len(proof.PathElements) <= 32)
    => /\ outcomes[1].err = "nil"
       /\ Len(outcomes[1].r.PathElements) = Len(proof.PathElements)
       /\ Len(outcomes[1].r.PathIndexes) = Len(proof.PathIndexes)
       /\ \A i \in 1..Len(proof.PathElements) :
            /\ outcomes[1].r.PathElements[i] = proof.PathElements[i]
            /\ outcomes[1].r.PathIndexes[i] = proof.PathIndexes[i]

C1_Witness ==
    /\ origin = "serialize" /\ Deserialized /\ WellFormed(proof)
    /\ Len(proof.PathElements) = 32
    /\ outcomes[1].err = "nil"
    /\ outcomes[1].r.PathElements[2] # outcomes[1].r.PathElements[1]

\* C2: a serialized proof with its last byte removed, or with one byte
\* appended, is rejected by deserialize with an error.
C2_RejectsCutAndPadded ==
    (origin \in {"truncated", "padded"} /\ Deserialized)
    => outcomes[1].err = "error"

C2_Witness ==
    /\ origin = "truncated" /\ Deserialized /\ outcomes[1].err = "error"
    /\ WellFormed(proof) /\ Len(proof.PathElements) = 1

C2_WitnessPadded ==
    /\ origin = "padded" /\ Deserialized /\ outcomes[1].err = "error"
    /\ WellFormed(proof) /\ Len(proof.PathElements) = 1

\* C3: whatever the buffer and the element count in its first 8 bytes,
\* deserialize returns nil or an error and never panics.
C3_NeverPanics ==
    \A i \in 1..Len(outcomes) : outcomes[i].err \in {"nil", "error"}

\* C4: a deserialize call leaves every byte of the buffer it is given
\* unchanged (so that a second call on the buffer gives the same outcome).
C4_BufferUnchanged ==
    [][Len(outcomes') > Len(outcomes) => buf' = buf]_vars

\* C4, as seen by the caller: the second deserialize of a buffer returns
\* what the first returned.
C4_SameOutcomeTwice ==
    Len(outcomes) >= 2 => outcomes[2] = outcomes[1]

\* n as an 8-byte little-endian integer, for n < 2^31.
LE8(n) ==
    <<n % 256, (n \div 256) % 256, (n \div (256 * 256)) % 256,
      n \div (256 * 256 * 256), 0, 0, 0, 0>>

\* C5: a proof with n elements and n indexes serializes to 8 + 32n + 8 + n
\* bytes: n as 8 little-endian bytes, the n elements in order, n again as
\* 8 little-endian bytes, the n index bytes in order (16 bytes for n = 0).
C5_Layout ==
    (origin = "serialize" /\ outcomes = <<>> /\ WellFormed(proof))
    => LET n == Len(proof.PathElements)
       IN  /\ Len(buf) = 8 + 32 * n + 8 + n
           /\ SubSeq(buf, 1, 8) = LE8(n)
           /\ \A i \in 1..n : \A j \in 1..32 :
                buf[8 + 32 * (i - 1) + j] = proof.PathElements[i][j]
           /\ SubSeq(buf, 8 + 32 * n + 1, 8 + 32 * n + 8) = LE8(n)
           /\ \A i \in 1..n : buf[8 + 32 * n + 8 + i] = proof.PathIndexes[i]

C5_Witness ==
    /\ origin = "serialize" /\ outcomes = <<>> /\ WellFormed(proof)
    /\ Len(proof.PathElements) = 20
    /\ Len(buf) = 676

C5_WitnessEmpty ==
    /\ origin = "serialize" /\ outcomes = <<>>
    /\ proof = EmptyProof
    /\ buf = Zeros(16)

---------------------------------------------------------------------------
(* Claims about the witness and rate limit proof encodings (SpecWire).     *)

\* C6: a serialized witness is IDSecretHash (32 bytes), the serialized
\* Merkle proof, Data without a length prefix, Epoch (32 bytes) and
\* RlnIdentifier (32 bytes), in that order: 32 + (8 + 32d + 8 + d) +
\* len(Data) + 32 + 32 bytes for a proof of depth d.
C6_WitnessLayout ==
    wireOp = "witness"
    => LET d == Len(witness.MerkleProof.PathElements)
           m == 8 + 32 * d + 8 + d
           k == Len(witness.Data)
       IN  /\ Len(wire) = 32 + m + k + 32 + 32
           /\ SubSeq(wire, 1, 32) = witness.IdentityCredential.IDSecretHash
           /\ SubSeq(wire, 33, 32 + m)
                = MerkleProof_serialize(witness.MerkleProof)
           /\ SubSeq(wire, 33, 40) = LE8(d)
           /\ SubSeq(wire, 32 + m + 1, 32 + m + k) = witness.Data
           /\ SubSeq(wire, 32 + m + k + 1, 32 + m + k + 32) = witness.Epoch
           /\ SubSeq(wire, 32 + m + k + 33, 32 + m + k + 64)
                = witness.RlnIdentifier

\* The witness of TestRLNWitnessInputSerDe: depth 20 and 32 bytes of data.
C6_Witness ==
    /\ wireOp = "witness"
    /\ Len(witness.MerkleProof.PathElements) = 20
    /\ witness.Data = TestData
    /\ Len(wire) = 804

C6_WitnessShortData ==
    /\ wireOp = "witness"
    /\ Len(witness.Data) = 1
    /\ witness.Epoch # witness.RlnIdentifier

\* C7: a serialized rate limit proof is 320 bytes, Proof(128), MerkleRoot,
\* Epoch, ShareX, ShareY, Nullifier, RLNIdentifier (32 each);
\* serializeWithData gives those 320 bytes, then len(data) as 8
\* little-endian bytes, then data; neither changes a field of the proof.
C7_ProofLayout ==
    wireOp \in {"proof", "proofWithData"}
    => /\ SubSeq(wire, 1, 128) = rlpArg.Proof
       /\ SubSeq(wire, 129, 160) = rlpArg.MerkleRoot
       /\ SubSeq(wire, 161, 192) = rlpArg.Epoch
       /\ SubSeq(wire, 193, 224) = rlpArg.ShareX
       /\ SubSeq(wire, 225, 256) = rlpArg.ShareY
       /\ SubSeq(wire, 257, 288) = rlpArg.Nullifier
       /\ SubSeq(wire, 289, 320) = rlpArg.RLNIdentifier
       /\ wireOp = "proof" => Len(wire) = 320
       /\ wireOp = "proofWithData"
            => /\ Len(wire) = 328 + Len(data)
               /\ SubSeq(wire, 321, 328) = LE8(Len(data))
               /\ SubSeq(wire, 329, Len(wire)) = data
       /\ rlp = rlpArg

C7_Witness ==
    /\ wireOp = "proofWithData"
    /\ Len(data) = 2
    /\ rlp.ShareX # rlp.ShareY
    /\ Len(wire) = 330

C7_WitnessPlain ==
    /\ wireOp = "proof"
    /\ rlp.ShareX # rlp.ShareY
    /\ Len(wire) = 320

---------------------------------------------------------------------------
(* Claims about the field conversions (SpecField).                         *)

\* C8: a number below 2^248 (a *big.Int of at most 31 bytes) converted to
\* 32 bytes and back is the same number.
C8_FieldRoundTrip ==
    (fieldPc = "decoded" /\ Len(bigInt) <= 31) => newValue = bigInt

C8_Witness ==
    /\ fieldPc = "decoded"
    /\ bigInt = TestBigInt
    /\ newValue = TestBigInt

\* The base-256 digit of weight 256^i of the number whose big-endian bytes
\* are v: floor(v / 256^i) mod 256.
Digit(v, i) == IF i < Len(v) THEN v[Len(v) - i] ELSE 0

\* C9: for a number that fits in 32 bytes, byte i (0..31) of
\* BigIntToBytes32 is floor(x / 256^i) mod 256, the little-endian bytes
\* padded with zeros on the right; 2^248 - 1 gives 31 bytes 0xFF and a 0.
C9_LittleEndianPadded ==
    (fieldPc \in {"encoded", "decoded"} /\ Len(bigInt) <= 32)
    => /\ ~b32Value.panic
       /\ Len(b32Value.val) = 32
       /\ \A i \in 0..31 : b32Value.val[i + 1] = Digit(bigInt, i)
       /\ natural >= 0
            => b32Value.val = LE8(natural) \o Zeros(24)
       /\ bigInt = TestBigInt
            => b32Value.val = [i \in 1..32 |-> IF i = 32 THEN 0 ELSE 255]

C9_Witness ==
    /\ fieldPc = "encoded"
    /\ bigInt = TestBigInt
    /\ b32Value.val[31] = 255
    /\ b32Value.val[32] = 0

C9_WitnessNatural ==
    /\ fieldPc = "encoded"
    /\ natural = 305419896
    /\ b32Value.val = <<120, 86, 52, 18>> \o Zeros(28)

---------------------------------------------------------------------------
(* Claims about epochs (SpecEpoch).                                        *)

\* C10: the counter read from ToEpoch(c) is c, for every uint64 c; bytes
\* 8..31 of ToEpoch(c) are zero; and an epoch with the same first 8 bytes
\* and other bytes after them gives the same counter.
C10_EpochCounter ==
    /\ epochPc \in {"read", "readReceived"} => epochValue = counter
    /\ epochPc \in {"made", "read"} => \A i \in 9..32 : epoch[i] = 0
    /\ epochPc # "idle" => SubSeq(epoch, 1, 8) = SubSeq(ToEpoch(counter), 1, 8)

C10_Witness ==
    /\ epochPc = "readReceived"
    /\ counter = MaxUint64
    /\ epochValue = MaxUint64
    /\ epoch[9] # 0

C10_WitnessMade ==
    /\ epochPc = "read"
    /\ counter = <<256, 1, 0, 255>>
    /\ epochValue = counter
    /\ SubSeq(epoch, 1, 8) = <<0, 1, 1, 0, 0, 0, 255, 0>>

---------------------------------------------------------------------------
(* Claims about Diff (checked under SpecDiff).                             *)

DiffDone == diffPc = "done"

\* The epoch ToEpoch gives for the counter of e.
IsMade(e) == e = ToEpoch(Epoch_Uint64(e))

\* C11: for every counter c >= 1, the uint64 maximum included,
\* Diff(ToEpoch(c), ToEpoch(c-1)) is 1 and Diff(ToEpoch(c-1), ToEpoch(c))
\* is -1.
C11_AdjacentEpochs ==
    (DiffDone /\ IsMade(e1))
    => /\ (Epoch_Uint64(e1) # NatToU64(0)
             /\ Epoch_Uint64(e2) = Sub64(Epoch_Uint64(e1), NatToU64(1)))
          => diffValue = NatToU64(1)
       /\ (Epoch_Uint64(e2) # NatToU64(0)
             /\ Epoch_Uint64(e1) = Sub64(Epoch_Uint64(e2), NatToU64(1)))
          => diffValue = Neg64(NatToU64(1))

\* Diff(ToEpoch(MaxUint64), ToEpoch(MaxUint64 - 1)) has been taken, and
\* is 1.
C11_Witness ==
    /\ DiffDone
    /\ e1 = ToEpoch(MaxUint64)
    /\ e2 = ToEpoch(Sub64(MaxUint64, NatToU64(1)))
    /\ diffValue = NatToU64(1)

\* The reverse call at the maximum gives -1.
C11_WitnessReverse ==
    /\ DiffDone
    /\ e1 = ToEpoch(Sub64(MaxUint64, NatToU64(1)))
    /\ e2 = ToEpoch(MaxUint64)
    /\ diffValue = MaxUint64

\* C12: Diff orders epochs by their counters over the whole uint64 range:
\* Diff(a, b) > 0 exactly when a.Uint64() > b.Uint64(), Diff(a, b) < 0
\* exactly when a.Uint64() < b.Uint64(), and Diff(a, b) = 0 exactly when
\* the 8-byte counters are equal.
C12_TotalOrder ==
    DiffDone
    => /\ Positive64(diffValue) <=> Gt64(Epoch_Uint64(e1), Epoch_Uint64(e2))
       /\ Negative64(diffValue) <=> Gt64(Epoch_Uint64(e2), Epoch_Uint64(e1))
       /\ (diffValue = NatToU64(0)) <=> (SubSeq(e1, 1, 8) = SubSeq(e2, 1, 8))

\* The part of C12 the code keeps: the difference is 0 exactly when the
\* counters are equal, whatever bytes follow the counter.
C12_ZeroIffEqual ==
    DiffDone
    => ((diffValue = NatToU64(0)) <=> (SubSeq(e1, 1, 8) = SubSeq(e2, 1, 8)))

---------------------------------------------------------------------------
(* Claims about the membership registry (checked under SpecRegistry).      *)

\* The step is a call of the named method.
Step(name) == opCount' = opCount + 1 /\ regOp'.name = name

\* What GetMerkleRoot returns in the state.
RootNow == RLN_GetMerkleRoot(rln).out

\* C13: a successful InsertMember of a non-zero commitment changes the
\* root, and a DeleteMember of the index that insertion occupied, made
\* right after it, brings the root back to exactly the root before the
\* insertion.
C13_InsertThenDelete ==
    /\ (regOp.name = "InsertMember" /\ regOp.err = "nil"
            /\ regOp.idComms[1] # EmptyLeaf)
       => RootNow # regOp.rootBefore
    /\ (regOp.name = "DeleteMember" /\ regOp.err = "nil"
            /\ regOp.idComms # <<>> /\ regOp.idComms[1] # EmptyLeaf)
       => RootNow = regOp.rootBefore

\* A member was inserted into a tree that had a member already, and was
\* deleted again.
C13_Witness ==
    /\ regOp.name = "DeleteMember"
    /\ regOp.err = "nil"
    /\ regOp.idComms = <<TestLeaf(5)>>
    /\ regOp.index = 1
    /\ rln.leaves[1] = TestLeaf(1)
    /\ RootNow = regOp.rootBefore

\* Empty tree, insert, delete: the root of the empty tree again.
C13_WitnessEmpty ==
    /\ regOp.name = "DeleteMember"
    /\ regOp.idComms = <<TestLeaf(1)>>
    /\ opCount = 2
    /\ RootNow = RootOf(NewTree.leaves)

\* C14: when InsertMembers returns an error, every leaf, the number of
\* leaves set and the root are what they were before the call.
C14_BatchAtomic ==
    [][(Step("InsertMembers") /\ regOp'.err # "nil")
        => /\ rln'.leaves = rln.leaves
           /\ RLN_LeavesSet(rln') = RLN_LeavesSet(rln)
           /\ RLN_GetMerkleRoot(rln').out = RootNow]_vars

\* A batch failed whose first commitment had room in the tree.
C14_Witness ==
    /\ regOp.name = "InsertMembers"
    /\ regOp.err # "nil"
    /\ regOp.index = Capacity - 1
    /\ Len(regOp.idComms) >= 2
    /\ rln.leaves[Capacity] = EmptyLeaf

\* C15: GetMerkleRoot is a pure read: it returns 32 bytes, the same as
\* the GetMerkleRoot call right before it returned, and it changes no
\* leaf and not the next insertion position.
C15_RootIsPureRead ==
    [][Step("GetMerkleRoot")
        => /\ regOp'.err = "nil"
           /\ Len(regOp'.out) = 32
           /\ regOp.name = "GetMerkleRoot" => regOp'.out = regOp.out
           /\ rln'.leaves = rln.leaves
           /\ rln'.leavesSet = rln.leavesSet]_vars

\* The root of a tree with members was read twice in a row.
C15_Witness ==
    /\ regOp.name = "GetMerkleRoot"
    /\ Len(regOp.rootBefore) = 32
    /\ regOp.out = regOp.rootBefore
    /\ rln.leavesSet > 0

\* C16: on a fresh registry on which only InsertMember (and reads) have
\* been called, the k-th successful InsertMember stores its commitment at
\* the index k-1: GetLeaf(k-1) returns it right after the call, and the
\* leaves at the indexes 0..k-2 are unchanged.
C16_AppendsAtNext ==
    [][(Step("InsertMember") /\ onlyInserts /\ regOp'.err = "nil")
        => LET k == insertCount'
           IN  /\ RLN_GetLeaf(rln', k - 1).err = "nil"
               /\ RLN_GetLeaf(rln', k - 1).out = regOp'.idComms[1]
               /\ \A j \in 0..(k - 2) :
                     RLN_GetLeaf(rln', j).out = RLN_GetLeaf(rln, j).out]_vars

\* The third InsertMember on a fresh registry stored its commitment at
\* the index 2.
C16_Witness ==
    /\ regOp.name = "InsertMember"
    /\ regOp.err = "nil"
    /\ onlyInserts
    /\ insertCount = 3
    /\ regOp.idComms = <<TestLeaf(5)>>
    /\ rln.leaves = <<TestLeaf(1), TestLeaf(1), TestLeaf(5)>>
                       \o [i \in 1..(Capacity - 3) |-> EmptyLeaf]

\* C17: a successful DeleteMember(i) makes the leaf at i the all-zero
\* leaf and leaves the leaf at every other index as it was.
C17_DeleteOnlyThatLeaf ==
    [][(Step("DeleteMember") /\ regOp'.err = "nil")
        => /\ regOp'.index < Capacity
           /\ rln'.leaves[regOp'.index + 1] = Zeros(32)
           /\ \A j \in 0..(Capacity - 1) :
                 j # regOp'.index => rln'.leaves[j + 1] = rln.leaves[j + 1]
           /\ Len(rln'.leaves) = Len(rln.leaves)]_vars

\* The first of two members was deleted and the second is where it was.
C17_Witness ==
    /\ regOp.name = "DeleteMember"
    /\ regOp.err = "nil"
    /\ regOp.index = 0
    /\ rln.leavesSet = 2
    /\ rln.leaves[1] = EmptyLeaf
    /\ rln.leaves[2] = TestLeaf(5)

C19_ProofOfDepth ==
    (regOp.name = "GetMerkleProof" /\ regOp.index < Capacity)
    => /\ regOp.err = "nil"
       /\ Len(regOp.out.PathElements) = RegistryDepth
       /\ Len(regOp.out.PathIndexes) = RegistryDepth
       /\ regOp.out.PathElements[1] = rln.leaves[Sibling(regOp.index) + 1]
       /\ Sibling(regOp.index) >= rln.leavesSet
             => regOp.out.PathElements[1] = Zeros(32)
       /\ \A k \in 1..RegistryDepth :
             regOp.out.PathIndexes[k] = (regOp.index \div (2 ^ (k - 1))) % 2

\* The proof of the index 0 next to a member at the index 1.
C19_Witness ==
    /\ regOp.name = "GetMerkleProof"
    /\ regOp.err = "nil"
    /\ regOp.index = 0
    /\ rln.leaves[2] = TestLeaf(1)
    /\ regOp.out.PathElements[1] = TestLeaf(1)

\* The proof of an index beyond the populated range.
C19_WitnessUnpopulated ==
    /\ regOp.name = "GetMerkleProof"
    /\ regOp.err = "nil"
    /\ regOp.index = Capacity - 1
    /\ rln.leavesSet = 1
    /\ regOp.out.PathElements[1] = EmptyLeaf

---------------------------------------------------------------------------
(* Claims about proofs (checked under SpecProver).                         *)

Verified == vPc = "verified"

\* The proof verified is the one GenerateProof returned, and the data is
\* the message it was generated for.
ProofAsGenerated ==
    sent.altered = "none" /\ verifyArgs.data = genArgs.msg

\* The proof's embedded root is one of the roots given to Verify.
RootListed ==
    \E i \in 1..Len(verifyArgs.roots) :
        verifyArgs.roots[i] = sent.proof.MerkleRoot

\* C20: with a non-empty list of accepted roots, Verify returns true only
\* if the proof's MerkleRoot is one of the roots (and the proof is valid
\* for the data); with an empty list the result is decided by the proof's
\* validity alone.  A proof generated for a member at its own index
\* verifies true with no roots and with the registry's current root.
C20_VerifyRoots ==
    Verified
    => /\ (verifyArgs.roots # <<>> /\ verifyRes.res)
          => (RootListed /\ ProofAsGenerated)
       /\ verifyArgs.roots = <<>> => (verifyRes.res <=> ProofAsGenerated)
       /\ (ProofAsGenerated /\ genArgs.index = member.index
              /\ verifyArgs.roots \in {<<>>, <<RLN_GetMerkleRoot(group).out>>})
          => (verifyRes.res /\ verifyRes.err = "nil")

\* The member's proof verified true against the current root of a group
\* with other members.
C20_Witness ==
    /\ Verified
    /\ member.index = 2
    /\ genArgs.index = 2
    /\ ProofAsGenerated
    /\ verifyArgs.roots = <<RLN_GetMerkleRoot(group).out>>
    /\ verifyRes.res

\* The member's proof, unaltered, was refused for its root: only the old
\* root was accepted.
C20_WitnessRefused ==
    /\ Verified
    /\ ProofAsGenerated
    /\ verifyArgs.roots = <<rootOld>>
    /\ ~verifyRes.res
    /\ verifyRes.err = "nil"

\* The member's proof verified true with no roots.
C20_WitnessNoRoots ==
    /\ Verified
    /\ ProofAsGenerated
    /\ genArgs.index = member.index
    /\ verifyArgs.roots = <<>>
    /\ verifyRes.res

\* The proof verified is the one generated for the member at the index of
\* its commitment, with the message it was generated for.
OwnProof == ProofAsGenerated /\ genArgs.index = member.index

\* C21: after root_old = GetMerkleRoot(); InsertMember(c); proof =
\* GenerateProof(msg, credential of c, index of c, epoch), Verify(msg, proof,
\* root_old) returns false and Verify(msg, proof, current root) returns
\* true.
C21_OldRootRefuses ==
    (Verified /\ OwnProof)
    => /\ verifyArgs.roots = <<rootOld>>
             => (~verifyRes.res /\ verifyRes.err = "nil")
       /\ verifyArgs.roots = <<RLN_GetMerkleRoot(group).out>>
             => (verifyRes.res /\ verifyRes.err = "nil")

\* The member's proof was refused against the root read before the
\* insertion, in a group that had a member before.
C21_Witness ==
    /\ Verified
    /\ OwnProof
    /\ member.index = 1
    /\ verifyArgs.roots = <<rootOld>>
    /\ rootOld # RLN_GetMerkleRoot(group).out
    /\ ~verifyRes.res

\* The same proof was accepted against the current root.
C21_WitnessCurrent ==
    /\ Verified
    /\ OwnProof
    /\ member.index = 1
    /\ verifyArgs.roots = <<RLN_GetMerkleRoot(group).out>>
    /\ verifyRes.res

\* The proof verified is the one GenerateProof returned for the member's
\* credential at an index that does not hold the member's commitment.
BadIndexProof ==
    /\ sent.altered = "none"
    /\ RLN_GetLeaf(group, genArgs.index).out # member.key.IDCommitment

\* The backend call of the Verify made last failed.
BackendCallFailed ==
    ~verify_with_roots(group,
        RateLimitProof_serializeWithData(sent.proof, verifyArgs.data),
        serialize32(verifyArgs.roots)).ok

\* Verify gives an error only when the backend call fails, and then false.
ErrorOnlyFromBackend ==
    verifyRes.err # "nil" => (~verifyRes.res /\ BackendCallFailed)

C22_WitnessNoRoots ==
    /\ Verified
    /\ BadIndexProof
    /\ verifyArgs.data = genArgs.msg
    /\ verifyArgs.roots = <<>>
    /\ verifyRes.res
    /\ verifyRes.err = "nil"

\* The step is a call of GenerateProof.
Generating == vPc = "registered" /\ vPc' = "proved"

\* What the backend gives for the arguments of the call.
BackendOutput ==
    generate_rln_proof(group,
        serialize(member.key.IDSecretHash, genArgs'.index, genArgs'.epoch,
                  genArgs'.msg))

\* The seven fields are the seven parts of the 320 bytes b.
FilledFrom(p, b) ==
    /\ Len(b) = 320
    /\ p.Proof = SubSeq(b, 1, 128)
    /\ p.MerkleRoot = SubSeq(b, 129, 160)
    /\ p.Epoch = SubSeq(b, 161, 192)
    /\ p.ShareX = SubSeq(b, 193, 224)
    /\ p.ShareY = SubSeq(b, 225, 256)
    /\ p.Nullifier = SubSeq(b, 257, 288)
    /\ p.RLNIdentifier = SubSeq(b, 289, 320)

C23_WitnessProof ==
    /\ vPc = "proved"
    /\ ~proofRes.isNil
    /\ proofRes.err = "nil"
    /\ proofRes.proof.MerkleRoot = RLN_GetMerkleRoot(group).out
    /\ proofRes.proof.RLNIdentifier = BackendRlnIdentifier

---------------------------------------------------------------------------
(* Claims about proof metadata (checked under SpecMeta).                   *)

MetadataFields == {"Nullifier", "ShareX", "ShareY", "ExternalNullifier"}

C24_WitnessEqual ==
    /\ mdPc = "compared"
    /\ mdRes.out = mdOther
    /\ mdProof.ShareX # mdProof.ShareY
    /\ mdEquals

---------------------------------------------------------------------------
(* Claims about credentials from strings (checked under SpecCred).         *)

\* C25: for every list of key tuples, ToIdentityCredentials returns either
\* one IdentityCredential per tuple, in input order, with a nil error, or a
\* nil list with an error; it never panics.
C25_NeverPanics ==
    credPc = "done"
    => /\ ~credRes.panic
       /\ \/ /\ credRes.err = "nil"
             /\ Len(credRes.val) = Len(groupKeys)
             /\ \A k \in 1..Len(groupKeys) :
                   /\ credRes.val[k].IDTrapdoor = ToBytes32LE(groupKeys[k][1]).val
                   /\ credRes.val[k].IDCommitment
                         = ToBytes32LE(groupKeys[k][4]).val
          \/ /\ credRes.err # "nil"
             /\ credRes.val = <<>>

\* What holds of the calls that do not panic: one credential per tuple
\* and no error, or no list and an error.
C25_ResultOrError ==
    (credPc = "done" /\ ~credRes.panic)
    => \/ /\ credRes.err = "nil"
          /\ Len(credRes.val) = Len(groupKeys)
       \/ /\ credRes.err # "nil"
          /\ credRes.val = <<>>

\* A tuple of fewer than four strings made the call panic.
C25_WitnessShortTuple ==
    /\ credPc = "done"
    /\ credRes.panic
    /\ groupKeys = <<GoodTuple, SubSeq(GoodTuple, 1, 3)>>

\* A string of 33 bytes made the call panic.
C25_WitnessLongString ==
    /\ credPc = "done"
    /\ credRes.panic
    /\ Len(groupKeys) = 1
    /\ Len(groupKeys[1]) = 4
    /\ groupKeys[1][4] = HexOf(33)

---------------------------------------------------------------------------
(* Claims about the pooled Keccak state (checked under SpecPool).          *)

\* What Keccak256 gives for the data on a state just made.
OnFreshState(dataIn) ==
    KeccakState_Read(WriteAll(NewKeccakState, dataIn, 1).val).b

\* The caller's call has returned.
Returned(c) == callPc[c] = "idle" /\ callOut[c] # NoOutput

\* C26: whatever the sequence and interleaving of Keccak256 calls on
\* keccak256Pool, every call returns the digest of its own data, the one a
\* fresh state gives, and no pooled state is held by two calls in flight
\* (nor is a state held by a call in the pool).
C26_PooledStateIsReset ==
    /\ \A c \in Callers :
          callPc[c] \in {"read", "idle"} /\ callOut[c] # NoOutput
             => callOut[c] = Returns(OnFreshState(callData[c]))
    /\ \A c \in Callers, d \in Callers :
          (c # d /\ callHeld[c] # 0) => callHeld[c] # callHeld[d]
    /\ \A c \in Callers : callHeld[c] # 0 => callHeld[c] \notin keccak256Pool

\* Two calls with different data were made one after the other on the
\* same state, and each returned the digest of its own data.
C26_Witness ==
    \E c \in Callers, d \in Callers :
        /\ c # d
        /\ Returned(c)
        /\ Returned(d)
        /\ Len(hashStates) = 1
        /\ callCount = 2
        /\ callData[c] = <<<<200>>>>
        /\ callOut[c] = Returns(KeccakDigest(<<200>>))
        /\ callData[d] = <<<<7>>, <<200, 7>>>>
        /\ callOut[d] = Returns(KeccakDigest(<<7, 200, 7>>))

\* Two calls were in flight at the same time, one of them on a state taken
\* from the pool, and both have read their digest.
C26_WitnessInFlight ==
    \E c \in Callers, d \in Callers :
        /\ c # d
        /\ callPc[c] = "read"
        /\ callPc[d] = "read"
        /\ callCount = 3
        /\ Len(hashStates) = 2
        /\ callData[c] # callData[d]
        /\ callOut[c] = Returns(OnFreshState(callData[c]))
        /\ callOut[d] = Returns(OnFreshState(callData[d]))

---------------------------------------------------------------------------
(* More about Diff (checked under SpecDiff).                               *)

\* The borrow into word j of the subtraction a - b done word by word.
RECURSIVE BorrowInto(_, _, _)
BorrowInto(a, b, j) ==
    IF j = 1 THEN 0
    ELSE IF a[j - 1] - b[j - 1] - BorrowInto(a, b, j - 1) < 0 THEN 1 ELSE 0

\* The exact a - b of two unsigned numbers with a >= b.
ExactMinus(a, b) ==
    [j \in 1..4 |-> (a[j] - b[j] - BorrowInto(a, b, j) + Word) % Word]

\* m <= 2^63 - 1.
FitsPositive(m) == m[4] < Word \div 2

\* m <= 2^63.
FitsNegative(m) == FitsPositive(m) \/ m = <<0, 0, 0, Word \div 2>>

\* C27: when the exact difference a.Uint64() - b.Uint64() lies in
\* [-2^63, 2^63 - 1], Diff(a, b) is that difference, also when a counter is
\* 2^63 or more: a difference m >= 0 is returned as m, and a difference
\* -m < 0 as the negative int64 that gives 0 when m is added.
C27_ExactInRange ==
    DiffDone
    => LET a == Epoch_Uint64(e1)
           b == Epoch_Uint64(e2)
       IN  /\ (~Gt64(b, a) /\ FitsPositive(ExactMinus(a, b)))
                 => (diffValue = ExactMinus(a, b) /\ ~Negative64(diffValue))
           /\ (Gt64(b, a) /\ FitsNegative(ExactMinus(b, a)))
                 => /\ Negative64(diffValue)
                    /\ Add64(diffValue, ExactMinus(b, a)) = NatToU64(0)

\* Diff of the counters 2^63 + 1 and 2^63 - 1 has been taken, and is 2.
C27_Witness ==
    /\ DiffDone
    /\ Epoch_Uint64(e1) = <<1, 0, 0, Word \div 2>>
    /\ Epoch_Uint64(e2) = <<Word - 1, Word - 1, Word - 1, (Word \div 2) - 1>>
    /\ diffValue = NatToU64(2)

\* Diff of the counters 2^63 - 1 and 2^64 - 1 has been taken, and is -2^63.
C27_WitnessLowest ==
    /\ DiffDone
    /\ Epoch_Uint64(e1) = <<Word - 1, Word - 1, Word - 1, (Word \div 2) - 1>>
    /\ Epoch_Uint64(e2) = MaxUint64
    /\ diffValue = <<0, 0, 0, Word \div 2>>

---------------------------------------------------------------------------
(* More about proofs (checked under SpecProver).                           *)

\* The bytes the backend gave to the GenerateProof call made.
GeneratedBytes ==
    generate_rln_proof(group,
        serialize(member.key.IDSecretHash, genArgs.index, genArgs.epoch,
                  genArgs.msg)).out

\* C28: the RateLimitProof that GenerateProof builds from the 320 bytes B
\* of the backend serializes back to exactly B: the parsing is the inverse
\* of RateLimitProof.serialize, and no byte of a field is changed or moved.
C28_ParseIsInverse ==
    (vPc = "proved" /\ ~proofRes.isNil)
    => /\ Len(GeneratedBytes) = 320
       /\ RateLimitProof_serialize(proofRes.proof) = GeneratedBytes

\* A proof was built from an output whose seven parts differ from each
\* other, the two shares and the two hashes among them.
C28_Witness ==
    /\ vPc = "proved"
    /\ ~proofRes.isNil
    /\ proofRes.proof.ShareX # proofRes.proof.ShareY
    /\ proofRes.proof.MerkleRoot # proofRes.proof.Nullifier
    /\ proofRes.proof.Epoch # proofRes.proof.RLNIdentifier
    /\ proofRes.proof.Epoch # Zeros(32)
    /\ SubSeq(GeneratedBytes, 193, 224) = proofRes.proof.ShareX

---------------------------------------------------------------------------
(* More about the Merkle proof codec (checked under SpecMerkle).           *)

\* The proof serialized has not as many indexes as elements.
Malformed ==
    /\ origin = "serialize"
    /\ Len(proof.PathElements) # Len(proof.PathIndexes)

\* C29: for a MerkleProof with len(PathElements) # len(PathIndexes),
\* serialize returns bytes all the same, 8 + 32*len(PathElements) + 8 +
\* len(PathIndexes) of them, and deserialize of those bytes returns an
\* error.
C29_MalformedIsCaught ==
    Malformed
    => /\ Len(buf) = 8 + 32 * Len(proof.PathElements) + 8
                        + Len(proof.PathIndexes)
       /\ outcomes # <<>> => outcomes[1].err = "error"

\* A proof of two elements and one index was serialized and the
\* deserialization of the bytes returned an error.
C29_Witness ==
    /\ Malformed
    /\ Len(proof.PathElements) = 2
    /\ Len(proof.PathIndexes) = 1
    /\ Len(buf) = 81
    /\ outcomes # <<>>
    /\ outcomes[1].err = "error"

\* A proof of no element and one index was serialized, and refused.
C29_WitnessNoElement ==
    /\ Malformed
    /\ proof.PathElements = <<>>
    /\ Len(proof.PathIndexes) = 1
    /\ outcomes # <<>>
    /\ outcomes[1].err = "error"

---------------------------------------------------------------------------
(* Claims about batch insertion (checked under SpecEquiv).                 *)

\* C30: on a fresh registry, a successful InsertMembers(0, cs) leaves the
\* same leaf at every index, the same number of leaves set, len(cs), and
\* the same root as AddAll(cs) on another fresh registry of the same depth.
C30_BatchAsOneByOne ==
    (eqPc = "both" /\ batchErr = "nil")
    => /\ singleErr = "nil"
       /\ \A index \in 0..(Capacity - 1) :
             RLN_GetLeaf(batchRln, index) = RLN_GetLeaf(singleRln, index)
       /\ RLN_LeavesSet(batchRln) = Len(eqComms)
       /\ RLN_LeavesSet(singleRln) = Len(eqComms)
       /\ RLN_GetMerkleRoot(batchRln).out = RLN_GetMerkleRoot(singleRln).out

\* Three commitments were inserted both ways.
C30_Witness ==
    /\ eqPc = "both"
    /\ batchErr = "nil"
    /\ eqComms = <<TestLeaf(5), TestLeaf(1), TestLeaf(5)>>
    /\ RLN_LeavesSet(batchRln) = 3
    /\ RLN_GetLeaf(singleRln, 1).out = TestLeaf(1)
    /\ RLN_GetMerkleRoot(batchRln).out # RLN_GetMerkleRoot(NewTree).out

\* A batch of one commitment more than the tree holds failed, and left
\* its registry empty, while AddAll filled the other.
C30_WitnessTooMany ==
    /\ eqPc = "both"
    /\ batchErr # "nil"
    /\ singleErr # "nil"
    /\ RLN_LeavesSet(batchRln) = 0
    /\ RLN_LeavesSet(singleRln) = Capacity

===========================================================================
